---- MODULE Spec2Model ----
(***************************************************************************)
(* X86Converter (xdsl/tools/convert_x86_to_mlir.py): the lowering of a     *)
(* parsed x86 statement stream into a block graph in SSA form.             *)
(*                                                                         *)
(* One conversion is a sequential run: get_basic_blocks, the creation of   *)
(* the block skeletons, then block by block the reset of the register      *)
(* tracker, the lowering of each statement and the synthesized             *)
(* fallthrough.  Block and operation indices are 0-based as in the code;   *)
(* TLA+ sequences are 1-based, so blocks[i + 1] is the code's blocks[i].   *)
(***************************************************************************)
EXTENDS Integers, Sequences, FiniteSets, TLC

\* Longest input program (number of statements) that Init enumerates.
MaxLen == 3

(***************************************************************************)
(* lark Token and ParseTree                                                *)
(***************************************************************************)
Token(type, value) ==
    [isToken |-> TRUE, data |-> type, value |-> value, children |-> <<>>]

Tree(data, children) ==
    [isToken |-> FALSE, data |-> data, value |-> "", children |-> children]

\* str.lower() on the opcode and register spellings the inputs use.
Lower(s) ==
    CASE s = "JNE" -> "jne"
      [] s = "ADD" -> "add"
      [] OTHER -> s

\* int(text): [ok, val]; ok = FALSE is Python's ValueError.
ParseInt(s) ==
    CASE s = "0"   -> [ok |-> TRUE, val |-> 0]
      [] s = "4"   -> [ok |-> TRUE, val |-> 4]
      [] s = "10"  -> [ok |-> TRUE, val |-> 10]
      [] s = "-3"  -> [ok |-> TRUE, val |-> -3]
      [] s = "100" -> [ok |-> TRUE, val |-> 100]
      [] OTHER     -> [ok |-> FALSE, val |-> 0]

(***************************************************************************)
(* Python dict, insertion-ordered: a sequence of [k, v] items.             *)
(***************************************************************************)
DictHas(d, key) == \E i \in 1..Len(d) : d[i].k = key

DictGet(d, key) == d[CHOOSE i \in 1..Len(d) : d[i].k = key].v

DictSet(d, key, val) ==
    IF DictHas(d, key)
    THEN [i \in 1..Len(d) |-> IF d[i].k = key THEN [k |-> key, v |-> val] ELSE d[i]]
    ELSE Append(d, [k |-> key, v |-> val])

DictValues(d) == IF Len(d) = 0 THEN <<>> ELSE [i \in 1..Len(d) |-> d[i].v]

DictKeys(d) == IF Len(d) = 0 THEN <<>> ELSE [i \in 1..Len(d) |-> d[i].k]

(***************************************************************************)
(* Errors.  type "none" is no error; every raise of the converter has      *)
(* type "X86ConversionError"; KeyError and IndexError are Python's own.    *)
(***************************************************************************)
NoError == [type |-> "none", msg |-> "", detail |-> ""]

ConversionError(msg, detail) ==
    [type |-> "X86ConversionError", msg |-> msg, detail |-> detail]

KeyError(key) == [type |-> "KeyError", msg |-> "", detail |-> key]

IndexError == [type |-> "IndexError", msg |-> "", detail |-> ""]

(***************************************************************************)
(* Registers.  X86_INDEX_BY_NAME is the name -> index dict of              *)
(* xdsl.dialects.x86.registers: the 16 general registers in canonical      *)
(* order.                                                                  *)
(***************************************************************************)
X86_INDEX_BY_NAME ==
    << [k |-> "rax", v |-> 0],  [k |-> "rcx", v |-> 1],
       [k |-> "rdx", v |-> 2],  [k |-> "rbx", v |-> 3],
       [k |-> "rsp", v |-> 4],  [k |-> "rbp", v |-> 5],
       [k |-> "rsi", v |-> 6],  [k |-> "rdi", v |-> 7],
       [k |-> "r8",  v |-> 8],  [k |-> "r9",  v |-> 9],
       [k |-> "r10", v |-> 10], [k |-> "r11", v |-> 11],
       [k |-> "r12", v |-> 12], [k |-> "r13", v |-> 13],
       [k |-> "r14", v |-> 14], [k |-> "r15", v |-> 15] >>

CONDITIONAL_JUMP_OPS ==
    { "jae", "ja", "jbe", "jb", "jc", "je", "jge", "jg", "jle", "jl",
      "jnae", "jna", "jnbe", "jnb", "jnc", "jne", "jnge", "jng", "jnle", "jnl",
      "jno", "jnp", "jns", "jnz", "jo", "jpe", "jpo", "jp", "js", "jz" }

(***************************************************************************)
(* SSA values: a block argument (its block and argument index) or an       *)
(* operation result (its block, the operation's index in the block, and    *)
(* the result's index).                                                    *)
(***************************************************************************)
BlockArgument(b, i) == [kind |-> "arg", block |-> b, op |-> 0, idx |-> i]

OpResult(b, n, r) == [kind |-> "res", block |-> b, op |-> n, idx |-> r]

NoValue == [kind |-> "none", block |-> 0, op |-> 0, idx |-> 0]

\* An operation: its class (shape prefix and opcode), SSA operands, integer
\* attributes (memory offset, immediate), number of results, successor blocks
\* and the values passed to each successor.
Operation(cls, opcode, operands, attrs, nres, succ, succ_values) ==
    [cls |-> cls, opcode |-> opcode, operands |-> operands, attrs |-> attrs,
     nres |-> nres, successors |-> succ, succ_values |-> succ_values]

NoOp == Operation("", "", <<>>, <<>>, 0, <<>>, <<>>)

(***************************************************************************)
(* is_jump_instruction / is_terminating_instruction                        *)
(***************************************************************************)
is_jump_instruction(tree) ==
    IF tree.isToken \/ ~tree.children[1].isToken
    THEN FALSE
    ELSE LET opcode == Lower(tree.children[1].value)
         IN  opcode = "jmp" \/ opcode \in CONDITIONAL_JUMP_OPS

\* Mutant: ret does not end a block.
is_terminating_instruction_WithoutRet(tree) == is_jump_instruction(tree)

is_terminating_instruction(tree) ==
    IF is_jump_instruction(tree)
    THEN TRUE
    ELSE IF tree.isToken \/ ~tree.children[1].isToken
         THEN FALSE
         ELSE Lower(tree.children[1].value) = "ret"

(***************************************************************************)
(* get_basic_blocks: the loop over tree.children from statement i on, with *)
(* the local list `blocks` and self.label_map as they stand.               *)
(***************************************************************************)
Front(s) == SubSeq(s, 1, Len(s) - 1)

AppendToLast(bs, x) == [bs EXCEPT ![Len(bs)] = Append(bs[Len(bs)], x)]

\* Mutant: the label is recorded against the index after the block it opens.
MapSet_NextIndex(m, key, val) ==
    [n \in DOMAIN m \cup {key} |-> IF n = key THEN val + 1 ELSE m[n]]

MapSet(m, key, val) ==
    [n \in DOMAIN m \cup {key} |-> IF n = key THEN val ELSE m[n]]

EmptyMap == [n \in {} |-> 0]

RECURSIVE SplitFrom(_, _, _, _)
SplitFrom(stmts, i, bs, lm) ==
    IF i > Len(stmts)
    THEN [blocks    |-> IF Len(bs[Len(bs)]) = 0 THEN Front(bs) ELSE bs,
          label_map |-> lm,
          error     |-> NoError]
    ELSE LET instruction == stmts[i] IN
         IF instruction.isToken
         THEN [blocks |-> bs, label_map |-> lm,
               error |-> ConversionError("Invalid code structure", "")]
         ELSE IF instruction.data = "label" /\ ~instruction.children[1].isToken
         THEN [blocks |-> bs, label_map |-> lm,
               error |-> ConversionError("Invalid code structure", "")]
         ELSE LET isLabel == instruction.data = "label"
                  popped  == IF isLabel /\ Len(bs[Len(bs)]) = 0 THEN Front(bs) ELSE bs
                  lm1     == IF isLabel
                             THEN MapSet(lm, instruction.children[1].value, Len(popped))
                             ELSE lm
                  opened  == IF isLabel THEN Append(popped, <<>>) ELSE bs
                  added   == AppendToLast(opened, instruction)
                  closed  == IF is_terminating_instruction(instruction)
                             THEN Append(added, <<>>)
                             ELSE added
              IN  SplitFrom(stmts, i + 1, closed, lm1)

get_basic_blocks(stmts) == SplitFrom(stmts, 1, << <<>> >>, EmptyMap)

(***************************************************************************)
(* new_basic_block: a Block with its 17 arguments and the name -> argument *)
(* dict.  insert_arg(type, i) puts the new argument at index i.            *)
(***************************************************************************)
InsertAt(s, i, x) == SubSeq(s, 1, i) \o <<x>> \o SubSeq(s, i + 1, Len(s))

RECURSIVE InsertArgs(_, _, _, _)
InsertArgs(b, n, args, inputs) ==
    IF n > Len(X86_INDEX_BY_NAME)
    THEN [args |-> args, inputs |-> inputs]
    ELSE LET register == X86_INDEX_BY_NAME[n].k
             i        == X86_INDEX_BY_NAME[n].v
         IN  InsertArgs(b, n + 1,
                        InsertAt(args, i, BlockArgument(b, i)),
                        DictSet(inputs, register, BlockArgument(b, i)))

\* Mutant: the block declares the 16 general registers and no flags parameter.
new_basic_block_WithoutFlags(b) ==
    LET general == InsertArgs(b, 1, <<>>, <<>>)
    IN  [block  |-> [args |-> general.args, ops |-> <<>>],
         inputs |-> general.inputs]

new_basic_block(b) ==
    LET general == InsertArgs(b, 1, <<>>, <<>>)
    IN  [block  |-> [args |-> InsertAt(general.args, 16, BlockArgument(b, 16)),
                     ops  |-> <<>>],
         inputs |-> DictSet(general.inputs, "rflags", BlockArgument(b, 16))]

(***************************************************************************)
(* Operand decoding                                                        *)
(***************************************************************************)
RegisterNames == {X86_INDEX_BY_NAME[i].k : i \in 1..Len(X86_INDEX_BY_NAME)}

\* not isinstance(operand, Token) or operand.value.lower() not in X86_INDEX_BY_NAME
InvalidRegisterOperand(operand) ==
    ~operand.isToken \/ Lower(operand.value) \notin RegisterNames

get_immediate_operand(operand) ==
    IF ~operand.isToken
    THEN [error |-> ConversionError("Invalid immediate operand", ""), value |-> 0]
    ELSE IF ~ParseInt(operand.value).ok
    THEN [error |-> ConversionError("Invalid immediate operand", operand.value),
          value |-> 0]
    ELSE [error |-> NoError, value |-> ParseInt(operand.value).val]

\* Mutant: the sign token is not looked at.
get_memory_operand_SignIgnored(operand, crv) ==
    IF operand.isToken \/ Len(operand.children) \notin {1, 3}
    THEN [error |-> ConversionError("Invalid memory operand", ""),
          register |-> NoValue, offset |-> 0]
    ELSE IF ~operand.children[1].isToken
    THEN [error |-> ConversionError("Invalid memory operand", ""),
          register |-> NoValue, offset |-> 0]
    ELSE LET base == Lower(operand.children[1].value) IN
         IF ~DictHas(crv, base)
         THEN [error |-> KeyError(base), register |-> NoValue, offset |-> 0]
         ELSE LET register == DictGet(crv, base) IN
              IF Len(operand.children) # 3
              THEN [error |-> NoError, register |-> register, offset |-> 0]
              ELSE IF ~operand.children[2].isToken \/ ~operand.children[3].isToken
              THEN [error |-> ConversionError("Invalid memory operand", ""),
                    register |-> NoValue, offset |-> 0]
              ELSE IF ~ParseInt(operand.children[3].value).ok
              THEN [error |-> ConversionError("Invalid memory offset", "0"),
                    register |-> NoValue, offset |-> 0]
              ELSE [error    |-> NoError,
                    register |-> register,
                    offset   |-> ParseInt(operand.children[3].value).val]

get_memory_operand(operand, crv) ==
    IF operand.isToken \/ Len(operand.children) \notin {1, 3}
    THEN [error |-> ConversionError("Invalid memory operand", ""),
          register |-> NoValue, offset |-> 0]
    ELSE IF ~operand.children[1].isToken
    THEN [error |-> ConversionError("Invalid memory operand", ""),
          register |-> NoValue, offset |-> 0]
    ELSE LET base == Lower(operand.children[1].value) IN
         IF ~DictHas(crv, base)
         THEN [error |-> KeyError(base), register |-> NoValue, offset |-> 0]
         ELSE LET register == DictGet(crv, base) IN
              IF Len(operand.children) # 3
              THEN [error |-> NoError, register |-> register, offset |-> 0]
              ELSE IF ~operand.children[2].isToken \/ ~operand.children[3].isToken
              THEN [error |-> ConversionError("Invalid memory operand", ""),
                    register |-> NoValue, offset |-> 0]
              ELSE IF ~ParseInt(operand.children[3].value).ok
              THEN [error |-> ConversionError("Invalid memory offset", "0"),
                    register |-> NoValue, offset |-> 0]
              ELSE [error    |-> NoError,
                    register |-> register,
                    offset   |-> IF operand.children[2].value = "+"
                                 THEN ParseInt(operand.children[3].value).val
                                 ELSE 0 - ParseInt(operand.children[3].value).val]

get_dest_register_type(operand) ==
    IF InvalidRegisterOperand(operand)
    THEN ConversionError("Invalid register operand", "")
    ELSE NoError

\* Mutant: the register is read from the block's input parameters, not from the
\* tracker.
get_source_register_FromBlockInput(operand, crv) ==
    IF InvalidRegisterOperand(operand)
    THEN [error |-> ConversionError("Invalid register operand", ""), value |-> NoValue]
    ELSE [error |-> NoError,
          value |-> BlockArgument(crv[1].v.block,
                                  DictGet(X86_INDEX_BY_NAME, Lower(operand.value)))]

get_source_register(operand, crv) ==
    IF InvalidRegisterOperand(operand)
    THEN [error |-> ConversionError("Invalid register operand", ""), value |-> NoValue]
    ELSE IF ~DictHas(crv, Lower(operand.value))
    THEN [error |-> KeyError(Lower(operand.value)), value |-> NoValue]
    ELSE [error |-> NoError, value |-> DictGet(crv, Lower(operand.value))]

\* Mutant: the operand is checked but the tracker is not updated.
set_destination_register_Unwritten(operand, value, crv) ==
    IF InvalidRegisterOperand(operand)
    THEN [error |-> ConversionError("Invalid register operand", ""), crv |-> crv]
    ELSE [error |-> NoError, crv |-> crv]

set_destination_register(operand, value, crv) ==
    IF InvalidRegisterOperand(operand)
    THEN [error |-> ConversionError("Invalid register operand", ""), crv |-> crv]
    ELSE [error |-> NoError, crv |-> DictSet(crv, Lower(operand.value), value)]

(***************************************************************************)
(* parse_operand_types / parse_instruction_type                            *)
(***************************************************************************)
OperandType(operand) ==
    IF operand.isToken
    THEN IF operand.data = "REG" THEN "REG"
         ELSE IF operand.data = "IMM" THEN "IMM"
         ELSE "LABEL"
    ELSE "MEM"

\* Mutant: a token that is not a register is taken for an immediate.
parse_operand_types_LabelAsImmediate(operands) ==
    [error |-> NoError,
     types |-> IF Len(operands) = 0 THEN <<>>
               ELSE [i \in 1..Len(operands) |->
                        IF OperandType(operands[i]) = "LABEL" THEN "IMM"
                        ELSE OperandType(operands[i])]]

parse_operand_types(operands) ==
    IF \E i \in 1..Len(operands) : OperandType(operands[i]) = "LABEL"
    THEN [error |-> ConversionError("Data instruction cannot have label operand", ""),
          types |-> <<>>]
    ELSE [error |-> NoError,
          types |-> IF Len(operands) = 0 THEN <<>>
                    ELSE [i \in 1..Len(operands) |-> OperandType(operands[i])]]

\* Mutant: xor is missing from the arithmetic cases of the match.
Arithmetic_WithoutXor == {"add", "sub", "and", "or"}

Arithmetic == {"add", "sub", "and", "xor", "or"}

Unary == {"dec", "inc", "neg", "not"}

InvalidCombination == ConversionError("Invalid combination of opcode and operands", "")

\* The match of lines 156-197: the instruction type, or "" when the match raises.
InstructionTypeOf(opcode, types) ==
    CASE types = <<"REG", "REG">> ->
             IF opcode \in Arithmetic THEN "RS"
             ELSE IF opcode = "mov" THEN "DS"
             ELSE IF opcode = "cmp" THEN "SS" ELSE ""
      [] types = <<"REG", "MEM">> ->
             IF opcode \in Arithmetic THEN "RM"
             ELSE IF opcode \in {"lea", "mov"} THEN "DM"
             ELSE IF opcode = "cmp" THEN "SM" ELSE ""
      [] types = <<"REG", "IMM">> ->
             IF opcode \in Arithmetic THEN "RI"
             ELSE IF opcode = "mov" THEN "DI"
             ELSE IF opcode = "cmp" THEN "SI" ELSE ""
      [] types = <<"MEM", "REG">> ->
             IF opcode \in Arithmetic \cup {"cmp", "mov"} THEN "MS" ELSE ""
      [] types = <<"MEM", "IMM">> ->
             IF opcode \in Arithmetic \cup {"cmp", "mov"} THEN "MI" ELSE ""
      [] types = <<"REG">> ->
             IF opcode \in Unary THEN "R"
             ELSE IF opcode = "push" THEN "S"
             ELSE IF opcode = "pop" THEN "D" ELSE ""
      [] types = <<"MEM">> ->
             IF opcode \in Unary \cup {"push", "pop"} THEN "M" ELSE ""
      [] types = <<>> ->
             IF opcode = "ret" THEN "C" ELSE ""
      [] OTHER -> ""

parse_instruction_type(opcode, operands) ==
    LET t == parse_operand_types(operands) IN
    IF t.error # NoError
    THEN [error |-> t.error, type |-> ""]
    ELSE IF InstructionTypeOf(opcode, t.types) = ""
    THEN [error |-> InvalidCombination, type |-> ""]
    ELSE [error |-> NoError, type |-> InstructionTypeOf(opcode, t.types)]

(***************************************************************************)
(* parse_jump, for the jump `instruction` of block block_index, given      *)
(* self.blocks (nblocks of them), self.label_map and the tracker crv.      *)
(***************************************************************************)
\* Mutant: the else-successor is checked before the label is looked up.
parse_jump_ElseCheckFirst(instruction, block_index, nblocks, lm, crv) ==
    LET c == instruction.children IN
    IF ~c[1].isToken
    THEN [error |-> ConversionError("Instruction should start with opcode token", ""),
          op |-> NoOp]
    ELSE IF Len(c) # 2
    THEN [error |-> ConversionError("Jump instruction must have one operand", ""),
          op |-> NoOp]
    ELSE IF ~c[2].isToken \/ c[2].data # "LABELNAME"
    THEN [error |-> ConversionError("Jump instruction must have label operand", ""),
          op |-> NoOp]
    ELSE IF Lower(c[1].value) # "jmp" /\ block_index = nblocks - 1
    THEN [error |-> ConversionError(
                        "Conditional jump at the end of program (has no successor)", ""),
          op |-> NoOp]
    ELSE IF c[2].value \notin DOMAIN lm
    THEN [error |-> ConversionError("Label does not exist in the program", c[2].value),
          op |-> NoOp]
    ELSE IF lm[c[2].value] >= nblocks
    THEN [error |-> IndexError, op |-> NoOp]
    ELSE LET opcode       == Lower(c[1].value)
             target_block == lm[c[2].value]
             regs         == DictValues(crv)
         IN  IF opcode = "jmp"
             THEN [error |-> NoError,
                   op |-> Operation("C", "jmp", <<>>, <<>>, 0,
                                    <<target_block>>, <<regs>>)]
             ELSE IF block_index = nblocks - 1
             THEN [error |-> ConversionError(
                                 "Conditional jump at the end of program (has no successor)", ""),
                   op |-> NoOp]
             ELSE IF ~DictHas(crv, "rflags")
             THEN [error |-> KeyError("rflags"), op |-> NoOp]
             ELSE [error |-> NoError,
                   op |-> Operation("C", opcode, <<DictGet(crv, "rflags")>>, <<>>, 0,
                                    <<target_block, block_index + 1>>, <<regs, regs>>)]

\* Mutant: a conditional jump in the last block is not refused.
parse_jump_WithoutElseCheck(instruction, block_index, nblocks, lm, crv) ==
    LET c == instruction.children IN
    IF ~c[1].isToken
    THEN [error |-> ConversionError("Instruction should start with opcode token", ""),
          op |-> NoOp]
    ELSE IF Len(c) # 2
    THEN [error |-> ConversionError("Jump instruction must have one operand", ""),
          op |-> NoOp]
    ELSE IF ~c[2].isToken \/ c[2].data # "LABELNAME"
    THEN [error |-> ConversionError("Jump instruction must have label operand", ""),
          op |-> NoOp]
    ELSE IF c[2].value \notin DOMAIN lm
    THEN [error |-> ConversionError("Label does not exist in the program", c[2].value),
          op |-> NoOp]
    ELSE IF lm[c[2].value] >= nblocks
    THEN [error |-> IndexError, op |-> NoOp]
    ELSE LET opcode       == Lower(c[1].value)
             target_block == lm[c[2].value]
             regs         == DictValues(crv)
         IN  IF opcode = "jmp"
             THEN [error |-> NoError,
                   op |-> Operation("C", "jmp", <<>>, <<>>, 0,
                                    <<target_block>>, <<regs>>)]
             ELSE IF block_index = nblocks
             THEN [error |-> ConversionError(
                                 "Conditional jump at the end of program (has no successor)", ""),
                   op |-> NoOp]
             ELSE IF ~DictHas(crv, "rflags")
             THEN [error |-> KeyError("rflags"), op |-> NoOp]
             ELSE [error |-> NoError,
                   op |-> Operation("C", opcode, <<DictGet(crv, "rflags")>>, <<>>, 0,
                                    <<target_block, block_index + 1>>, <<regs, regs>>)]

parse_jump(instruction, block_index, nblocks, lm, crv) ==
    LET c == instruction.children IN
    IF ~c[1].isToken
    THEN [error |-> ConversionError("Instruction should start with opcode token", ""),
          op |-> NoOp]
    ELSE IF Len(c) # 2
    THEN [error |-> ConversionError("Jump instruction must have one operand", ""),
          op |-> NoOp]
    ELSE IF ~c[2].isToken \/ c[2].data # "LABELNAME"
    THEN [error |-> ConversionError("Jump instruction must have label operand", ""),
          op |-> NoOp]
    ELSE IF c[2].value \notin DOMAIN lm
    THEN [error |-> ConversionError("Label does not exist in the program", c[2].value),
          op |-> NoOp]
    ELSE IF lm[c[2].value] >= nblocks
    THEN [error |-> IndexError, op |-> NoOp]
    ELSE LET opcode       == Lower(c[1].value)
             target_block == lm[c[2].value]
             regs         == DictValues(crv)
         IN  IF opcode = "jmp"
             THEN [error |-> NoError,
                   op |-> Operation("C", "jmp", <<>>, <<>>, 0,
                                    <<target_block>>, <<regs>>)]
             ELSE IF block_index = nblocks - 1
             THEN [error |-> ConversionError(
                                 "Conditional jump at the end of program (has no successor)", ""),
                   op |-> NoOp]
             ELSE IF ~DictHas(crv, "rflags")
             THEN [error |-> KeyError("rflags"), op |-> NoOp]
             ELSE [error |-> NoError,
                   op |-> Operation("C", opcode, <<DictGet(crv, "rflags")>>, <<>>, 0,
                                    <<target_block, block_index + 1>>, <<regs, regs>>)]

(***************************************************************************)
(* parse_instruction, for a non-jump instruction that becomes operation n  *)
(* of block b.  The result is the set of possible outcomes                 *)
(* [error, op, crv]: one outcome everywhere except where the outcome       *)
(* depends on how many results an operation of xdsl.dialects.x86 has.      *)
(***************************************************************************)
Raise(e, crv) == {[error |-> e, op |-> NoOp, crv |-> crv]}

Return(op, crv) == {[error |-> NoError, op |-> op, crv |-> crv]}

\* case "RS", "RM", "RI", "R": read-modify-write of the register children[1]
LowerRegisterInOut(cls, opcode, c, b, n, crv) ==
    LET dest == get_source_register(c[2], crv) IN
    IF dest.error # NoError THEN Raise(dest.error, crv)
    ELSE IF cls = "RS"
    THEN LET source == get_source_register(c[3], crv) IN
         IF source.error # NoError THEN Raise(source.error, crv)
         ELSE Return(Operation(cls, opcode, <<dest.value, source.value>>, <<>>, 1, <<>>, <<>>),
                     set_destination_register(c[2], OpResult(b, n, 0), crv).crv)
    ELSE IF cls = "RM"
    THEN LET m == get_memory_operand(c[3], crv) IN
         IF m.error # NoError THEN Raise(m.error, crv)
         ELSE Return(Operation(cls, opcode, <<dest.value, m.register>>, <<m.offset>>,
                               1, <<>>, <<>>),
                     set_destination_register(c[2], OpResult(b, n, 0), crv).crv)
    ELSE IF cls = "RI"
    THEN LET imm == get_immediate_operand(c[3]) IN
         IF imm.error # NoError THEN Raise(imm.error, crv)
         ELSE Return(Operation(cls, opcode, <<dest.value>>, <<imm.value>>, 1, <<>>, <<>>),
                     set_destination_register(c[2], OpResult(b, n, 0), crv).crv)
    ELSE Return(Operation(cls, opcode, <<dest.value>>, <<>>, 1, <<>>, <<>>),
                set_destination_register(c[2], OpResult(b, n, 0), crv).crv)

\* case "DS", "DM", "DI": the register children[1] is written, not read
LowerRegisterOut(cls, opcode, c, b, n, crv) ==
    IF get_dest_register_type(c[2]) # NoError
    THEN Raise(get_dest_register_type(c[2]), crv)
    ELSE IF cls = "DS"
    THEN LET source == get_source_register(c[3], crv) IN
         IF source.error # NoError THEN Raise(source.error, crv)
         ELSE Return(Operation(cls, opcode, <<source.value>>, <<>>, 1, <<>>, <<>>),
                     set_destination_register(c[2], OpResult(b, n, 0), crv).crv)
    ELSE IF cls = "DM"
    THEN LET m == get_memory_operand(c[3], crv) IN
         IF m.error # NoError THEN Raise(m.error, crv)
         ELSE Return(Operation(cls, opcode, <<m.register>>, <<m.offset>>, 1, <<>>, <<>>),
                     set_destination_register(c[2], OpResult(b, n, 0), crv).crv)
    ELSE LET imm == get_immediate_operand(c[3]) IN
         IF imm.error # NoError THEN Raise(imm.error, crv)
         ELSE Return(Operation(cls, opcode, <<>>, <<imm.value>>, 1, <<>>, <<>>),
                     set_destination_register(c[2], OpResult(b, n, 0), crv).crv)

\* Mutant: the cmp result is stored under the wrong key.
WriteFlags_UnderRax(crv, value) == DictSet(crv, "rax", value)

\* self.current_register_values["rflags"] = op.results[0]
WriteFlags(crv, value) == DictSet(crv, "rflags", value)

\* case "SS", "SM", "SI": cmp with a register first operand
LowerCompare(cls, opcode, c, b, n, crv) ==
    LET source1 == get_source_register(c[2], crv) IN
    IF source1.error # NoError THEN Raise(source1.error, crv)
    ELSE IF cls = "SS"
    THEN LET source2 == get_source_register(c[3], crv) IN
         IF source2.error # NoError THEN Raise(source2.error, crv)
         ELSE Return(Operation(cls, opcode, <<source1.value, source2.value>>, <<>>,
                               1, <<>>, <<>>),
                     WriteFlags(crv, OpResult(b, n, 0)))
    ELSE IF cls = "SM"
    THEN LET m == get_memory_operand(c[3], crv) IN
         IF m.error # NoError THEN Raise(m.error, crv)
         ELSE Return(Operation(cls, opcode, <<source1.value, m.register>>, <<m.offset>>,
                               1, <<>>, <<>>),
                     WriteFlags(crv, OpResult(b, n, 0)))
    ELSE LET imm == get_immediate_operand(c[3]) IN
         IF imm.error # NoError THEN Raise(imm.error, crv)
         ELSE Return(Operation(cls, opcode, <<source1.value>>, <<imm.value>>, 1, <<>>, <<>>),
                     WriteFlags(crv, OpResult(b, n, 0)))

\* case "MS": memory destination, register source.  For an opcode other than
\* cmp, line 341 evaluates op.results[0] and then calls
\* set_destination_register on the memory node: an IndexError if the store
\* operation has no result, the converter's "Invalid register operand" if it
\* has one.
LowerMemorySource(opcode, c, b, n, crv) ==
    LET m == get_memory_operand(c[2], crv) IN
    IF m.error # NoError THEN Raise(m.error, crv)
    ELSE LET source == get_source_register(c[3], crv) IN
         IF source.error # NoError THEN Raise(source.error, crv)
         ELSE IF opcode = "cmp"
         THEN Return(Operation("MS", opcode, <<m.register, source.value>>, <<m.offset>>,
                               1, <<>>, <<>>),
                     WriteFlags(crv, OpResult(b, n, 0)))
         ELSE Raise(IndexError, crv)
              \cup Raise(set_destination_register(c[2], OpResult(b, n, 0), crv).error, crv)

\* case "MI": memory destination, immediate source
LowerMemoryImmediate(opcode, c, b, n, crv) ==
    LET m == get_memory_operand(c[2], crv) IN
    IF m.error # NoError THEN Raise(m.error, crv)
    ELSE LET imm == get_immediate_operand(c[3]) IN
         IF imm.error # NoError THEN Raise(imm.error, crv)
         ELSE IF opcode = "cmp"
         THEN Return(Operation("MI", opcode, <<m.register>>, <<m.offset, imm.value>>,
                               1, <<>>, <<>>),
                     WriteFlags(crv, OpResult(b, n, 0)))
         ELSE Return(Operation("MI", opcode, <<m.register>>, <<m.offset, imm.value>>,
                               0, <<>>, <<>>),
                     crv)

\* Mutant: the two writes of lines 373-374 in the opposite order.
LowerPopRegister_StackPointerLast(opcode, c, b, n, crv) ==
    IF ~DictHas(crv, "rsp") THEN Raise(KeyError("rsp"), crv)
    ELSE IF get_dest_register_type(c[2]) # NoError
    THEN Raise(get_dest_register_type(c[2]), crv)
    ELSE Return(Operation("D", opcode, <<DictGet(crv, "rsp")>>, <<>>, 2, <<>>, <<>>),
                DictSet(set_destination_register(c[2], OpResult(b, n, 1), crv).crv,
                        "rsp", OpResult(b, n, 0)))

\* case "D": pop to a register
LowerPopRegister(opcode, c, b, n, crv) ==
    IF ~DictHas(crv, "rsp") THEN Raise(KeyError("rsp"), crv)
    ELSE IF get_dest_register_type(c[2]) # NoError
    THEN Raise(get_dest_register_type(c[2]), crv)
    ELSE Return(Operation("D", opcode, <<DictGet(crv, "rsp")>>, <<>>, 2, <<>>, <<>>),
                set_destination_register(
                    c[2], OpResult(b, n, 1),
                    DictSet(crv, "rsp", OpResult(b, n, 0))).crv)

\* case "S": push of a register
LowerPushRegister(opcode, c, b, n, crv) ==
    IF ~DictHas(crv, "rsp") THEN Raise(KeyError("rsp"), crv)
    ELSE LET source == get_source_register(c[2], crv) IN
         IF source.error # NoError THEN Raise(source.error, crv)
         ELSE Return(Operation("S", opcode, <<DictGet(crv, "rsp"), source.value>>, <<>>,
                               1, <<>>, <<>>),
                     DictSet(crv, "rsp", OpResult(b, n, 0)))

\* case "M": unary, push or pop on a memory operand
LowerMemory(opcode, c, b, n, crv) ==
    LET m == get_memory_operand(c[2], crv) IN
    IF m.error # NoError THEN Raise(m.error, crv)
    ELSE IF ~DictHas(crv, "rsp") THEN Raise(KeyError("rsp"), crv)
    ELSE IF opcode \in {"push", "pop"}
    THEN Return(Operation("M", opcode, <<DictGet(crv, "rsp"), m.register>>, <<m.offset>>,
                          1, <<>>, <<>>),
                DictSet(crv, "rsp", OpResult(b, n, 0)))
    ELSE Return(Operation("M", opcode, <<m.register>>, <<m.offset>>, 0, <<>>, <<>>), crv)

parse_instruction(instruction, b, n, crv) ==
    LET c == instruction.children IN
    IF ~c[1].isToken
    THEN Raise(ConversionError("Instruction should start with opcode token", ""), crv)
    ELSE LET opcode == Lower(c[1].value)
             it     == parse_instruction_type(opcode, Tail(c))
         IN  IF it.error # NoError THEN Raise(it.error, crv)
             ELSE CASE it.type \in {"RS", "RM", "RI", "R"} ->
                           LowerRegisterInOut(it.type, opcode, c, b, n, crv)
                    [] it.type \in {"DS", "DM", "DI"} ->
                           LowerRegisterOut(it.type, opcode, c, b, n, crv)
                    [] it.type \in {"SS", "SM", "SI"} ->
                           LowerCompare(it.type, opcode, c, b, n, crv)
                    [] it.type = "MS" -> LowerMemorySource(opcode, c, b, n, crv)
                    [] it.type = "MI" -> LowerMemoryImmediate(opcode, c, b, n, crv)
                    [] it.type = "D"  -> LowerPopRegister(opcode, c, b, n, crv)
                    [] it.type = "S"  -> LowerPushRegister(opcode, c, b, n, crv)
                    [] it.type = "M"  -> LowerMemory(opcode, c, b, n, crv)
                    [] it.type = "C"  ->
                           Return(Operation("C", "ret", <<>>, <<>>, 0, <<>>, <<>>), crv)
                    [] OTHER ->
                           Raise(ConversionError("Invalid opcode", opcode), crv)

(***************************************************************************)
(* Input programs.  A statement is a label node or an instruction node as  *)
(* the lark grammar builds them.                                           *)
(***************************************************************************)
Label(name) == Tree("label", <<Token("LABELNAME", name)>>)

Instr(opcode, operands) == Tree("instruction", <<Token("OPCODE", opcode)>> \o operands)

Reg(name) == Token("REG", name)

Imm(text) == Token("IMM", text)

LabelRef(name) == Token("LABELNAME", name)

Mem(name) == Tree("mem", <<Token("REG", name)>>)

MemOff(name, sign, text) ==
    Tree("mem", <<Token("REG", name), Token("SIGN", sign), Token("OFFSET", text)>>)

RECURSIVE SeqsUpTo(_, _)
SeqsUpTo(S, n) ==
    IF n = 0 THEN {<<>>}
    ELSE LET shorter == SeqsUpTo(S, n - 1)
         IN  shorter \cup {Append(p, x) : p \in {q \in shorter : Len(q) = n - 1}, x \in S}

\* Control-flow programs: labels, jumps to a later, an earlier and an undefined
\* label, a cmp, an arithmetic instruction and ret, in every order.
ControlStatements ==
    { Label("la"), Label("lb"),
      Instr("jmp", <<LabelRef("lb")>>), Instr("jmp", <<LabelRef("lz")>>),
      Instr("jne", <<LabelRef("la")>>), Instr("jne", <<LabelRef("lz")>>),
      Instr("cmp", <<Reg("rax"), Reg("rbx")>>),
      Instr("add", <<Reg("rax"), Reg("rbx")>>),
      Instr("ret", <<>>) }

\* Every conditional-jump opcode (and an upper-case spelling), with and without
\* a cmp before it and a block after it.
ConditionalStatements(cc) ==
    { Label("la"), Instr(cc, <<LabelRef("la")>>), Instr("cmp", <<Reg("rax"), Reg("rbx")>>) }

\* Single instructions: every non-jump opcode of the grammar on every list of
\* at most two operands, and two lists of three.
DataOpcodes ==
    { "add", "sub", "mul", "div", "inc", "dec", "and", "or", "xor", "not", "neg",
      "push", "pop", "mov", "cmp", "lea", "call", "ret", "syscall", "ADD" }

Operands ==
    { Reg("rax"), Reg("rsp"), Reg("eax"), Reg("rflags"),
      Imm("4"), Imm("1.5"), LabelRef("printf"),
      Mem("rax"), Mem("eax"), Mem("rflags"),
      MemOff("rsp", "+", "4"), MemOff("rax", "-", "4") }

DataInstructions ==
    { Instr(opcode, operands) :
        opcode \in DataOpcodes,
        operands \in SeqsUpTo(Operands, 2)
                     \cup { <<Reg("rax"), Reg("rax"), Reg("rax")>>,
                            <<Reg("rax"), Imm("4"), Mem("rax")>> } }

\* What precedes the single instruction in its block.
Prefixes ==
    { <<>>,
      <<Instr("cmp", <<Reg("rax"), Reg("rbx")>>)>>,
      <<Instr("mov", <<Reg("rax"), Reg("rbx")>>)>> }

\* Straight-line code: instructions of one block that read what earlier ones
\* wrote, as source, as read-modify-write destination, as memory base and as
\* stack pointer; and a memory node of two children.
StraightLineStatements ==
    { Instr("mov", <<Reg("rax"), Reg("rbx")>>),
      Instr("add", <<Reg("rbx"), Reg("rax")>>),
      Instr("push", <<Reg("rbx")>>),
      Instr("pop", <<Reg("rax")>>),
      Instr("lea", <<Reg("rsp"), MemOff("rax", "-", "10")>>),
      Instr("cmp", <<Mem("rbx"), Imm("4")>>),
      Instr("inc", <<Tree("mem", <<Token("REG", "rax"), Token("OFFSET", "4")>>)>>) }

\* Labels whose name is also a mnemonic (`ret:`, `jne:`, `jmp:`), next to an
\* ordinary label, an instruction and a terminator.
MnemonicLabelStatements ==
    { Label("ret"), Label("jne"), Label("jmp"), Label("la"),
      Instr("add", <<Reg("rax"), Reg("rbx")>>),
      Instr("ret", <<>>) }

\* Statements that are neither a label node nor an instruction node as the
\* grammar builds them: a bare token, a label whose child is a node, a node of
\* another kind, an instruction whose first child is a node.
MalformedStatements ==
    { Token("REG", "rax"),
      Tree("label", <<Mem("rax")>>),
      Mem("rax"),
      Tree("instruction", <<Mem("rax"), Reg("rax")>>) }

MalformedPrograms ==
    { p \in SeqsUpTo(MalformedStatements
                       \cup { Label("la"), Instr("add", <<Reg("rax"), Reg("rbx")>>) },
                     MaxLen) :
        \E i \in 1..Len(p) : p[i] \in MalformedStatements }

Programs ==
    SeqsUpTo(ControlStatements, MaxLen)
    \cup UNION { SeqsUpTo(ConditionalStatements(cc), MaxLen) :
                   cc \in CONDITIONAL_JUMP_OPS \cup {"JNE"} }
    \cup { pre \o <<ins>> : pre \in Prefixes, ins \in DataInstructions }
    \cup SeqsUpTo(StraightLineStatements, MaxLen)
    \cup SeqsUpTo(MnemonicLabelStatements, MaxLen)
    \cup MalformedPrograms

(***************************************************************************)
(* The converter's state during one call of convert(tree).                 *)
(***************************************************************************)
VARIABLES
    program,                  \* tree.children, the input statements
    pc,                       \* where convert is
    instructions,             \* the blocks get_basic_blocks returned
    blocks,                   \* self.blocks
    block_register_inputs,    \* self.block_register_inputs
    label_map,                \* self.label_map
    current_register_values,  \* self.current_register_values
    index,                    \* convert_blocks: the block being lowered
    pos,                      \* convert_blocks: the next statement of that block
    ended_with_jump,          \* convert_blocks: local flag
    error                     \* the exception convert raised, if any

\* A converter instance used for several conversions in a row.
VARIABLES
    phase,                    \* which call of convert on this instance is running
    earlier                   \* the inputs and outcomes of the calls that returned

\* viewer/core.py: a Lines object, the LinearView built from it, and what
\* LinearView.print wrote.
VARIABLES
    lines,                    \* Lines: next, prev, lines
    columns,                  \* LinearView.columns
    vpc,                      \* where the viewer is
    line_no,                  \* the loop variable of __init__ and of print
    todo,                     \* the rest of the set the inner loop iterates over
    output                    \* the rows printed

converterVars == <<program, pc, instructions, blocks, block_register_inputs,
                   label_map, current_register_values, index, pos, ended_with_jump,
                   error>>

reuseVars == <<phase, earlier>>

viewVars == <<lines, columns, vpc, line_no, todo, output>>

vars == <<program, pc, instructions, blocks, block_register_inputs, label_map,
          current_register_values, index, pos, ended_with_jump, error,
          phase, earlier, lines, columns, vpc, line_no, todo, output>>

\* The first call of convert on a new instance.
FirstConversion ==
    /\ phase = "fresh"
    /\ earlier = <<>>

\* Lines.__init__, lines 14-17
NoLines == [next |-> <<>>, prev |-> <<>>, lines |-> <<>>]

\* No viewer is in use.
NoView ==
    /\ lines = NoLines
    /\ columns = <<>>
    /\ vpc = "lines"
    /\ line_no = 0
    /\ todo = {}
    /\ output = <<>>

\* X86Converter.__init__, lines 73-77, and the locals of convert before its
\* first statement
NewConverter ==
    /\ pc = "start"
    /\ instructions = <<>>
    /\ blocks = <<>>
    /\ block_register_inputs = <<>>
    /\ label_map = EmptyMap
    /\ current_register_values = <<>>
    /\ index = 0
    /\ pos = 0
    /\ ended_with_jump = FALSE
    /\ error = NoError

Init ==
    /\ program \in Programs
    /\ NewConverter
    /\ FirstConversion
    /\ NoView

\* Mutant: get_basic_blocks adds to the label table it finds.
GetBasicBlocks_KeepsLabels ==
    /\ pc = "start"
    /\ LET r == SplitFrom(program, 1, << <<>> >>, label_map) IN
         /\ label_map' = r.label_map
         /\ error' = r.error
         /\ instructions' = IF r.error = NoError THEN r.blocks ELSE instructions
         /\ pc' = IF r.error = NoError THEN "split" ELSE "failed"
    /\ UNCHANGED <<program, blocks, block_register_inputs, current_register_values,
                   index, pos, ended_with_jump>>
    /\ UNCHANGED <<reuseVars, viewVars>>

\* convert, line 450: blocks = self.get_basic_blocks(tree)
GetBasicBlocks ==
    /\ pc = "start"
    /\ LET r == get_basic_blocks(program) IN
         /\ label_map' = r.label_map
         /\ error' = r.error
         /\ instructions' = IF r.error = NoError THEN r.blocks ELSE instructions
         /\ pc' = IF r.error = NoError THEN "split" ELSE "failed"
    /\ UNCHANGED <<program, blocks, block_register_inputs, current_register_values,
                   index, pos, ended_with_jump>>
    /\ UNCHANGED <<reuseVars, viewVars>>

\* convert_blocks, lines 413-416: one new_basic_block per partition
NewBasicBlocks ==
    /\ pc = "split"
    /\ blocks' = IF Len(instructions) = 0 THEN <<>>
                 ELSE [i \in 1..Len(instructions) |-> new_basic_block(i - 1).block]
    /\ block_register_inputs' =
           IF Len(instructions) = 0 THEN <<>>
           ELSE [i \in 1..Len(instructions) |-> new_basic_block(i - 1).inputs]
    /\ index' = 0
    /\ pc' = IF Len(instructions) = 0 THEN "assembled" ELSE "enter"
    /\ UNCHANGED <<program, instructions, label_map, current_register_values,
                   pos, ended_with_jump, error>>
    /\ UNCHANGED <<reuseVars, viewVars>>

\* lines 419-421: clear the tracker and load the block's inputs
ResetRegisterValues(inputs) ==
    [i \in 1..Len(X86_INDEX_BY_NAME) |->
        [k |-> X86_INDEX_BY_NAME[i].k, v |-> DictGet(inputs, X86_INDEX_BY_NAME[i].k)]]

\* Mutant: the tracker is loaded for the first block only and kept afterwards.
EnterBlock_KeepsTracker ==
    /\ pc = "enter"
    /\ current_register_values' =
           IF index = 0
           THEN ResetRegisterValues(block_register_inputs[index + 1])
           ELSE current_register_values
    /\ ended_with_jump' = FALSE
    /\ pos' = 1
    /\ pc' = "body"
    /\ UNCHANGED <<program, instructions, blocks, block_register_inputs, label_map,
                   index, error>>
    /\ UNCHANGED <<reuseVars, viewVars>>

\* convert_blocks, lines 418-423: entering block `index`
EnterBlock ==
    /\ pc = "enter"
    /\ current_register_values' = ResetRegisterValues(block_register_inputs[index + 1])
    /\ ended_with_jump' = FALSE
    /\ pos' = 1
    /\ pc' = "body"
    /\ UNCHANGED <<program, instructions, blocks, block_register_inputs, label_map,
                   index, error>>
    /\ UNCHANGED <<reuseVars, viewVars>>

\* lines 424-439: the possible outcomes of lowering one statement of block b,
\* as operation n of the block
LowerOutcomes(instruction, b, n, nblocks, lm, crv, ended) ==
    IF instruction.isToken
    THEN {[error |-> ConversionError("Invalid code structure", ""), op |-> NoOp,
           crv |-> crv, ended |-> ended]}
    ELSE IF instruction.data = "label"
    THEN IF ~instruction.children[1].isToken
         THEN {[error |-> ConversionError("Invalid code structure", ""), op |-> NoOp,
                crv |-> crv, ended |-> ended]}
         ELSE {[error |-> NoError,
                op |-> Operation("Label", instruction.children[1].value,
                                 <<>>, <<>>, 0, <<>>, <<>>),
                crv |-> crv, ended |-> ended]}
    ELSE IF is_jump_instruction(instruction)
    THEN LET r == parse_jump(instruction, b, nblocks, lm, crv)
         IN  {[error |-> r.error, op |-> r.op, crv |-> crv, ended |-> TRUE]}
    ELSE {[error |-> r.error, op |-> r.op, crv |-> r.crv, ended |-> ended] :
            r \in parse_instruction(instruction, b, n, crv)}

\* convert_blocks, lines 424-439: one iteration of the loop over the block
LowerStatement ==
    /\ pc = "body"
    /\ pos <= Len(instructions[index + 1])
    /\ \E o \in LowerOutcomes(instructions[index + 1][pos], index,
                              Len(blocks[index + 1].ops), Len(blocks), label_map,
                              current_register_values, ended_with_jump) :
         /\ error' = o.error
         /\ ended_with_jump' = o.ended
         /\ current_register_values' = o.crv
         /\ blocks' = IF o.error = NoError
                      THEN [blocks EXCEPT ![index + 1].ops = Append(@, o.op)]
                      ELSE blocks
         /\ pos' = IF o.error = NoError THEN pos + 1 ELSE pos
         /\ pc' = IF o.error = NoError THEN "body" ELSE "failed"
    /\ UNCHANGED <<program, instructions, block_register_inputs, label_map, index>>
    /\ UNCHANGED <<reuseVars, viewVars>>

FallthroughOp(values, successor) ==
    Operation("Fallthrough", "", <<>>, <<>>, 0, <<successor>>, <<values>>)

\* lines 441-446: what the end of block b adds to its operations
EndOfBlockOps(ops, b, nblocks, crv, ended) ==
    IF ~ended /\ b # nblocks - 1
    THEN Append(ops, FallthroughOp(DictValues(crv), b + 1))
    ELSE ops

\* convert_blocks, lines 441-446, and the step of the loop of line 418
EndBlock ==
    /\ pc = "body"
    /\ pos > Len(instructions[index + 1])
    /\ blocks' = [blocks EXCEPT ![index + 1].ops =
                     EndOfBlockOps(@, index, Len(instructions),
                                   current_register_values, ended_with_jump)]
    /\ index' = index + 1
    /\ pc' = IF index + 1 = Len(instructions) THEN "assembled" ELSE "enter"
    /\ UNCHANGED <<program, instructions, block_register_inputs, label_map,
                   current_register_values, pos, ended_with_jump, error>>
    /\ UNCHANGED <<reuseVars, viewVars>>

\* convert, lines 453-454: the region of self.blocks is returned
ReturnRegion ==
    /\ pc = "assembled"
    /\ pc' = "done"
    /\ UNCHANGED <<program, instructions, blocks, block_register_inputs, label_map,
                   current_register_values, index, pos, ended_with_jump, error>>
    /\ UNCHANGED <<reuseVars, viewVars>>

Next ==
    \/ GetBasicBlocks
    \/ NewBasicBlocks
    \/ EnterBlock
    \/ LowerStatement
    \/ EndBlock
    \/ ReturnRegion

Spec == Init /\ [][Next]_vars

(***************************************************************************)
(* One X86Converter instance used for several conversions: a first call on *)
(* the new instance, a second call on any input, a third call on the input *)
(* of the first.  The fields of the instance are whatever the call before  *)
(* left in them; the locals of convert are new in every call.              *)
(***************************************************************************)
MaxReuseLen == 2

ReuseStatements ==
    { Label("la"),
      Instr("jmp", <<LabelRef("la")>>),
      Instr("jne", <<LabelRef("la")>>),
      Instr("cmp", <<Reg("rax"), Reg("rbx")>>) }

ReusePrograms == SeqsUpTo(ReuseStatements, MaxReuseLen)

\* convert has returned a region or raised.
Finished == pc \in {"done", "failed"}

\* What the caller of convert gets: the error raised, or the blocks of the region.
Outcome ==
    IF pc = "failed"
    THEN [error |-> error, blocks |-> <<>>]
    ELSE [error |-> NoError, blocks |-> blocks]

\* The caller calls convert again on the same instance.
ConvertAgain ==
    /\ Finished
    /\ phase \in {"fresh", "between"}
    /\ earlier' = Append(earlier, [program |-> program, outcome |-> Outcome])
    /\ phase' = IF phase = "fresh" THEN "between" ELSE "again"
    /\ program' \in IF phase = "fresh" THEN ReusePrograms ELSE {earlier[1].program}
    /\ pc' = "start"
    /\ instructions' = <<>>
    /\ index' = 0
    /\ pos' = 0
    /\ ended_with_jump' = FALSE
    /\ error' = NoError
    /\ UNCHANGED <<blocks, block_register_inputs, label_map, current_register_values>>
    /\ UNCHANGED viewVars

ReuseInit ==
    /\ program \in ReusePrograms
    /\ NewConverter
    /\ FirstConversion
    /\ NoView

ReuseNext ==
    \/ GetBasicBlocks
    \/ NewBasicBlocks
    \/ EnterBlock
    \/ LowerStatement
    \/ EndBlock
    \/ ReturnRegion
    \/ ConvertAgain

ReuseSpec == ReuseInit /\ [][ReuseNext]_vars

(***************************************************************************)
(* viewer/core.py: Lines and LinearView.  Line numbers count from 0 as in  *)
(* the source; element i of a Python list is element i + 1 of a sequence.  *)
(***************************************************************************)
MaxLines == 3
MaxJumps == 3

\* Lines.add_line, lines 19-29
add_line(ls, line) ==
    [next  |-> Append(ls.next, {}),
     prev  |-> Append(ls.prev, {}),
     lines |-> Append(ls.lines, line)]

\* Lines.add_jump, lines 31-33
add_jump(ls, start_id, end_id) ==
    LET added == [ls EXCEPT !.next[start_id + 1] = @ \cup {end_id}]
    IN  [added EXCEPT !.prev[end_id + 1] = @ \cup {start_id}]

\* The Jmp dataclass, lines 39-43
Jmp(start, end, reversed) == [start |-> start, end |-> end, reversed |-> reversed]

ASCII_BORDER ==
    [h |-> "-", v |-> "|", tr |-> "+", tl |-> "+", br |-> "+", bl |-> "+", hv |-> "-"]

\* Mutant: a jump goes to the first column, whatever that column holds.
insert_FirstColumn(cols, jmp) ==
    IF Len(cols) = 0
    THEN Append(cols, <<jmp>>)
    ELSE [cols EXCEPT ![1] = Append(@, jmp)]

\* Mutant: a column takes a jump only when its last jump ends before the line
\* where the new one starts.
insert_NeverTouching(cols, jmp) ==
    LET free == {c \in 1..Len(cols) :
                    Len(cols[c]) = 0 \/ cols[c][Len(cols[c])].end < jmp.start}
    IN  IF free = {}
        THEN Append(cols, <<jmp>>)
        ELSE LET c == CHOOSE x \in free : \A y \in free : x <= y
             IN  [cols EXCEPT ![c] = Append(@, jmp)]

\* LinearView._insert, lines 98-105: the first column that is empty or whose
\* last jump ends at or before jmp.start takes the jump, else a new column
insert(cols, jmp) ==
    LET free == {c \in 1..Len(cols) :
                    Len(cols[c]) = 0 \/ cols[c][Len(cols[c])].end <= jmp.start}
    IN  IF free = {}
        THEN Append(cols, <<jmp>>)
        ELSE LET c == CHOOSE x \in free : \A y \in free : x <= y
             IN  [cols EXCEPT ![c] = Append(@, jmp)]

\* Line 84: `if end <= line_no: continue`
IsForward(line, end) == ~(end <= line)

\* Mutant: a jump of a line to itself is skipped with the earlier starts.
IsBackward_WithoutSelf(line, start) == ~(start <= line)

\* Line 92: `if start < line_no: continue`
IsBackward(line, start) == ~(start < line)

\* bisect.bisect_right(col, x, key=lambda j: j.start), as the library computes it
RECURSIVE bisect_right(_, _, _, _)
bisect_right(col, x, lo, hi) ==
    IF lo < hi
    THEN LET mid == (lo + hi) \div 2
         IN  IF x < col[mid + 1].start
             THEN bisect_right(col, x, lo, mid)
             ELSE bisect_right(col, x, mid + 1, hi)
    ELSE lo

\* [" "] * n
Spaces(n) == IF n <= 0 THEN <<>> ELSE [i \in 1..n |-> " "]

\* columns[:n]
FirstN(cols, n) ==
    IF n <= 0 THEN <<>> ELSE SubSeq(cols, 1, IF n < Len(cols) THEN n ELSE Len(cols))

\* Lines 114-148: the loop over the columns, from column c on
RECURSIVE DisplayColumns(_, _, _, _, _, _)
DisplayColumns(cols, c, line, outgoing, out, horizontal) ==
    IF c > Len(cols)
    THEN [out |-> out, horizontal |-> horizontal]
    ELSE LET col    == cols[c]
             i      == bisect_right(col, line, 0, Len(col)) - 1
             blank  == IF horizontal THEN ASCII_BORDER.h ELSE " "
             bar    == IF horizontal THEN ASCII_BORDER.h ELSE ASCII_BORDER.v
         IN  IF i < 0 \/ Len(col) <= i
             THEN DisplayColumns(cols, c + 1, line, outgoing, Append(out, blank),
                                 horizontal)
             ELSE LET value == col[i + 1]
                      corner == IF outgoing
                                THEN IF value.reversed THEN value.end ELSE value.start
                                ELSE IF value.reversed THEN value.start ELSE value.end
                      turn   == IF outgoing
                                THEN IF value.reversed THEN ASCII_BORDER.bl
                                                       ELSE ASCII_BORDER.tl
                                ELSE IF value.reversed THEN ASCII_BORDER.tl
                                                       ELSE ASCII_BORDER.bl
                      inside == IF outgoing
                                THEN value.start <= line /\ line < value.end
                                ELSE value.start < line /\ line <= value.end
                  IN  IF corner = line
                      THEN DisplayColumns(cols, c + 1, line, outgoing,
                                          Append(out, turn), TRUE)
                      ELSE IF inside
                      THEN DisplayColumns(cols, c + 1, line, outgoing,
                                          Append(out, bar), horizontal)
                      ELSE DisplayColumns(cols, c + 1, line, outgoing,
                                          Append(out, blank), horizontal)

\* The default of the parameter line_width, line 108
DefaultLineWidth == 8

\* LinearView._display, lines 107-155: the row as a sequence of characters
display(cols, line, outgoing, line_width) ==
    LET width == line_width - 2
        r     == DisplayColumns(FirstN(cols, width), 1, line, outgoing,
                                Spaces(width - Len(cols)), FALSE)
    IN  r.out \o (IF r.horizontal
                  THEN IF outgoing THEN <<ASCII_BORDER.h, ASCII_BORDER.h>>
                                   ELSE <<ASCII_BORDER.h, ">">>
                  ELSE <<" ", " ">>)

\* Lines 157-161
display_incoming(cols, line) == display(cols, line, FALSE, DefaultLineWidth)

display_outgoing(cols, line) == display(cols, line, TRUE, DefaultLineWidth)

\* LinearView.print, lines 165-178: the rows printed for one line; the row
\* `<row> LINE_<n>:` is the text "LINE_" with the number n
PrintedRows(ls, cols, line) ==
    LET incoming == display_incoming(cols, line)
        label    == IF incoming[Len(incoming)] # " "
                    THEN <<[row |-> incoming, text |-> "LINE_", line |-> line]>>
                    ELSE <<>>
    IN  label \o <<[row |-> display_outgoing(cols, line), text |-> ls.lines[line + 1],
                    line |-> line]>>

\* The jumps of a Lines object, as pairs (start, end)
JumpsOf(ls) == {<<a, b>> \in (0..(Len(ls.next) - 1)) \X (0..(Len(ls.next) - 1)) :
                   b \in ls.next[a + 1]}

\* A client calls lines.add_line(..)
AddLine ==
    /\ vpc = "lines"
    /\ Len(lines.next) < MaxLines
    /\ lines' = add_line(lines, "nop")
    /\ UNCHANGED <<columns, vpc, line_no, todo, output>>
    /\ UNCHANGED <<converterVars, reuseVars>>

\* A client calls lines.add_jump(start_id, end_id) with two existing lines
AddJump ==
    /\ vpc = "lines"
    /\ Cardinality(JumpsOf(lines)) < MaxJumps
    /\ \E start_id \in 0..(Len(lines.next) - 1), end_id \in 0..(Len(lines.next) - 1) :
         lines' = add_jump(lines, start_id, end_id)
    /\ UNCHANGED <<columns, vpc, line_no, todo, output>>
    /\ UNCHANGED <<converterVars, reuseVars>>

\* LinearView.__init__, lines 75-82: the view is created and the loop over the
\* lines starts; range(0) leaves the loop at once
NewLinearView ==
    /\ vpc = "lines"
    /\ columns' = <<>>
    /\ line_no' = 0
    /\ todo' = IF Len(lines.next) = 0 THEN {} ELSE lines.next[1]
    /\ vpc' = IF Len(lines.next) = 0 THEN "view" ELSE "next"
    /\ UNCHANGED <<lines, output>>
    /\ UNCHANGED <<converterVars, reuseVars>>

\* Lines 82-88: one iteration of `for end in lines.next[line_no]`; a set is
\* iterated in an order the language leaves open
ForwardJump ==
    /\ vpc = "next"
    /\ \E end \in todo :
         /\ todo' = todo \ {end}
         /\ columns' = IF IsForward(line_no, end)
                       THEN insert(columns, Jmp(line_no, end, FALSE))
                       ELSE columns
    /\ UNCHANGED <<lines, vpc, line_no, output>>
    /\ UNCHANGED <<converterVars, reuseVars>>

\* Line 91: the first inner loop is over, the second starts
BackwardJumps ==
    /\ vpc = "next"
    /\ todo = {}
    /\ todo' = lines.prev[line_no + 1]
    /\ vpc' = "prev"
    /\ UNCHANGED <<lines, columns, line_no, output>>
    /\ UNCHANGED <<converterVars, reuseVars>>

\* Lines 91-96: one iteration of `for start in lines.prev[line_no]`
BackwardJump ==
    /\ vpc = "prev"
    /\ \E start \in todo :
         /\ todo' = todo \ {start}
         /\ columns' = IF IsBackward(line_no, start)
                       THEN insert(columns, Jmp(line_no, start, TRUE))
                       ELSE columns
    /\ UNCHANGED <<lines, vpc, line_no, output>>
    /\ UNCHANGED <<converterVars, reuseVars>>

\* Line 80: the next line, or the end of __init__
NextLine ==
    /\ vpc = "prev"
    /\ todo = {}
    /\ line_no' = line_no + 1
    /\ todo' = IF line_no + 1 < Len(lines.next) THEN lines.next[line_no + 2] ELSE {}
    /\ vpc' = IF line_no + 1 < Len(lines.next) THEN "next" ELSE "view"
    /\ UNCHANGED <<lines, columns, output>>
    /\ UNCHANGED <<converterVars, reuseVars>>

\* LinearView.print, line 164: the loop starts
PrintView ==
    /\ vpc = "view"
    /\ line_no' = 0
    /\ output' = <<>>
    /\ vpc' = "print"
    /\ UNCHANGED <<lines, columns, todo>>
    /\ UNCHANGED <<converterVars, reuseVars>>

\* Lines 165-178: the rows of one line
PrintLine ==
    /\ vpc = "print"
    /\ line_no < Len(lines.next)
    /\ output' = output \o PrintedRows(lines, columns, line_no)
    /\ line_no' = line_no + 1
    /\ UNCHANGED <<lines, columns, vpc, todo>>
    /\ UNCHANGED <<converterVars, reuseVars>>

\* Line 164: range(len(self.lines)) is exhausted
PrintReturns ==
    /\ vpc = "print"
    /\ line_no = Len(lines.next)
    /\ vpc' = "printed"
    /\ UNCHANGED <<lines, columns, line_no, todo, output>>
    /\ UNCHANGED <<converterVars, reuseVars>>

ViewInit ==
    /\ program = <<>>
    /\ NewConverter
    /\ FirstConversion
    /\ NoView

ViewNext ==
    \/ AddLine
    \/ AddJump
    \/ NewLinearView
    \/ ForwardJump
    \/ BackwardJumps
    \/ BackwardJump
    \/ NextLine
    \/ PrintView
    \/ PrintLine
    \/ PrintReturns

ViewSpec == ViewInit /\ [][ViewNext]_vars

(***************************************************************************)
(* Vocabulary of the properties                                            *)
(***************************************************************************)
Opcode(stmt) == Lower(stmt.children[1].value)

IsInstruction(stmt) == ~stmt.isToken /\ stmt.data = "instruction"

IsJmp(stmt) == IsInstruction(stmt) /\ Opcode(stmt) = "jmp"

IsConditionalJump(stmt) == IsInstruction(stmt) /\ Opcode(stmt) \in CONDITIONAL_JUMP_OPS

IsRet(stmt) == IsInstruction(stmt) /\ Opcode(stmt) = "ret"

\* Operation n of block b comes from statement n of partition b: every lowered
\* statement adds exactly one operation.
StatementOf(b, n) == instructions[b + 1][n]

IsJmpOp(op) == op.cls = "C" /\ op.opcode = "jmp"

IsConditionalJumpOp(op) == op.cls = "C" /\ op.opcode \in CONDITIONAL_JUMP_OPS

IsRetOp(op) == op.cls = "C" /\ op.opcode = "ret"

IsFallthroughOp(op) == op.cls = "Fallthrough"

IsTerminatorOp(op) ==
    IsJmpOp(op) \/ IsConditionalJumpOp(op) \/ IsRetOp(op) \/ IsFallthroughOp(op)

\* The 17 register names of a block's input parameters, by parameter position.
ParameterNames ==
    [i \in 1..17 |-> IF i <= 16 THEN X86_INDEX_BY_NAME[i].k ELSE "rflags"]

\* The register bound to input parameter i (from 1) of block b.
ParameterRegister(b, i) ==
    CHOOSE r \in {ParameterNames[j] : j \in 1..17} :
        DictGet(block_register_inputs[b + 1], r) = blocks[b + 1].args[i]

\* The block whose lowering the tracker currently reflects, or -1.
TrackedBlock ==
    IF pc \in {"body", "failed"} /\ pos >= 1 THEN index
    ELSE IF pc \in {"enter", "assembled", "done"} THEN index - 1
    ELSE 0 - 1

\* A snapshot of 17 values, value i being the tracker's value of the register
\* bound to parameter i of block `target`.
SnapshotBindsTracker(values, target) ==
    /\ Len(values) = 17
    /\ \A i \in 1..17 :
         /\ DictHas(current_register_values, ParameterRegister(target, i))
         /\ values[i] = DictGet(current_register_values, ParameterRegister(target, i))

LoweringFailed == pc = "failed" /\ pos >= 1

FailedStatement == instructions[index + 1][pos]

\* C1: every unconditional jump and every synthesized fallthrough carries exactly
\* one successor and a snapshot of exactly 17 values, value i being the tracker's
\* current value of the register bound to input parameter i of the target block,
\* also in a block in which no cmp was lowered.
C1_JumpSnapshotHas17Values ==
    \A b \in 1..Len(blocks) : \A n \in 1..Len(blocks[b].ops) :
        LET op == blocks[b].ops[n] IN
        (IsJmpOp(op) \/ IsFallthroughOp(op)) =>
            /\ Len(op.successors) = 1
            /\ Len(op.succ_values) = 1
            /\ Len(op.succ_values[1]) = 17
            /\ (b - 1 = TrackedBlock /\ n = Len(blocks[b].ops)) =>
                   SnapshotBindsTracker(op.succ_values[1], op.successors[1])

\* C2: a conditional jump in a block other than the last, with a defined target
\* label, is lowered successfully into two successor edges, to the label's block
\* and to block current+1, both carrying the identical 17-value snapshot, with or
\* without a cmp earlier in the block.
C2_ConditionalJumpTwoEdges ==
    /\ (LoweringFailed /\ IsConditionalJump(FailedStatement)) =>
           ~(/\ Len(FailedStatement.children) = 2
             /\ FailedStatement.children[2].data = "LABELNAME"
             /\ FailedStatement.children[2].value \in DOMAIN label_map
             /\ index # Len(instructions) - 1)
    /\ \A b \in 1..Len(blocks) : \A n \in 1..Len(blocks[b].ops) :
        LET op == blocks[b].ops[n] IN
        IsConditionalJumpOp(op) =>
            /\ op.successors = <<label_map[StatementOf(b - 1, n).children[2].value], b>>
            /\ Len(op.succ_values) = 2
            /\ op.succ_values[1] = op.succ_values[2]
            /\ Len(op.succ_values[1]) = 17

\* C3: when lowering enters a block, the tracker holds exactly 17 entries, the 16
\* general registers and the flags register, each mapped to that block's own input
\* parameter for the register; nothing of the previous block survives.
C3_TrackerAtBlockEntry ==
    (pc = "body" /\ pos = 1) =>
        /\ Len(current_register_values) = 17
        /\ {current_register_values[i].k : i \in 1..Len(current_register_values)}
               = {ParameterNames[j] : j \in 1..17}
        /\ \A i \in 1..Len(current_register_values) :
               current_register_values[i].v
                   = DictGet(block_register_inputs[index + 1], current_register_values[i].k)

\* C4: in every assembled graph, every block other than the last ends in exactly
\* one terminator, which is its final operation; a block whose final statement is
\* ret gets no fallthrough after the return, and a non-last block whose final
\* statement is neither a jump nor ret gets exactly one fallthrough to index+1.
C4_OneTerminatorPerBlock ==
    pc = "done" =>
        \A b \in 1..(Len(blocks) - 1) :
            LET ops  == blocks[b].ops
                last == instructions[b][Len(instructions[b])]
                terminators == {n \in 1..Len(ops) : IsTerminatorOp(ops[n])}
            IN  /\ terminators = {Len(ops)}
                /\ IsRet(last) => \A n \in 1..Len(ops) : ~IsFallthroughOp(ops[n])
                /\ (~is_jump_instruction(last) /\ ~IsRet(last)) =>
                       /\ IsFallthroughOp(ops[Len(ops)])
                       /\ ops[Len(ops)].successors = <<b>>

\* C5: convert returns a graph or fails with X86ConversionError; it never fails
\* with another kind of error.
C5_OnlyConversionErrors ==
    error.type \in {"none", "X86ConversionError"}

(***************************************************************************)
(* Vocabulary of the properties of one lowering step                       *)
(***************************************************************************)
CurrentStatement == instructions[index + 1][pos]

\* The step lowers CurrentStatement and adds its operation to the block.
LowersCurrent ==
    /\ pc = "body"
    /\ pos <= Len(instructions[index + 1])
    /\ pos' = pos + 1

\* Result r of the operation the step adds.
NewOpResult(r) == OpResult(index, Len(blocks[index + 1].ops), r)

NewOp == blocks'[index + 1].ops[Len(blocks[index + 1].ops) + 1]

KeysOf(d) == {d[i].k : i \in 1..Len(d)}

EntryUnchanged(key) ==
    /\ DictHas(current_register_values, key) <=> DictHas(current_register_values', key)
    /\ DictHas(current_register_values, key) =>
           DictGet(current_register_values', key) = DictGet(current_register_values, key)

AllUnchangedExcept(keys) ==
    \A key \in (KeysOf(current_register_values) \cup KeysOf(current_register_values')) \ keys :
        EntryUnchanged(key)

OperandKind(operand) ==
    IF ~operand.isToken THEN "mem"
    ELSE IF operand.data = "REG" THEN "reg"
    ELSE IF operand.data = "IMM" THEN "imm"
    ELSE "label"

Shape(stmt) ==
    IF Len(stmt.children) = 1 THEN <<>>
    ELSE [i \in 1..(Len(stmt.children) - 1) |-> OperandKind(stmt.children[i + 1])]

TrackedGeneralRegisters ==
    { "rax", "rcx", "rdx", "rbx", "rsp", "rbp", "rsi", "rdi",
      "r8", "r9", "r10", "r11", "r12", "r13", "r14", "r15" }

ArithmeticOpcodes == {"add", "sub", "and", "xor", "or"}

ValidBase(mem) ==
    /\ Len(mem.children) \in {1, 3}
    /\ Lower(mem.children[1].value) \in TrackedGeneralRegisters
    /\ Len(mem.children) = 3 => ParseInt(mem.children[3].value).ok

ValidSource(operand) ==
    IF OperandKind(operand) = "reg"
    THEN Lower(operand.value) \in TrackedGeneralRegisters
    ELSE OperandKind(operand) = "imm" /\ ParseInt(operand.value).ok

IsMemoryDestination(stmt) ==
    /\ IsInstruction(stmt)
    /\ Opcode(stmt) \in ArithmeticOpcodes \cup {"mov"}
    /\ Shape(stmt) \in {<<"mem", "reg">>, <<"mem", "imm">>}

\* C6: lowering an instruction with a memory destination (add, sub, and, xor, or,
\* mov; memory-register and memory-immediate) with a valid tracked base and a
\* valid source succeeds and leaves every entry of the tracker unchanged.
C6_MemoryDestinationWritesNothing ==
    [][ ( /\ pc = "body"
          /\ pos <= Len(instructions[index + 1])
          /\ IsMemoryDestination(CurrentStatement)
          /\ ValidBase(CurrentStatement.children[2])
          /\ ValidSource(CurrentStatement.children[3]) )
        => ( /\ error' = NoError
             /\ pos' = pos + 1
             /\ current_register_values' = current_register_values ) ]_vars

\* The supported (opcode, shape) matrix.
SupportedMatrix(opcode, shape) ==
    \/ /\ opcode \in ArithmeticOpcodes \cup {"mov", "cmp"}
       /\ shape \in { <<"reg", "reg">>, <<"reg", "mem">>, <<"reg", "imm">>,
                      <<"mem", "reg">>, <<"mem", "imm">> }
    \/ opcode = "lea" /\ shape = <<"reg", "mem">>
    \/ /\ opcode \in {"inc", "dec", "neg", "not", "push", "pop"}
       /\ shape \in { <<"reg">>, <<"mem">> }
    \/ opcode = "ret" /\ shape = <<>>

\* A non-jump instruction, opcode token first, whose operands are registers,
\* immediates and memory.
IsDataInstruction(stmt) ==
    /\ IsInstruction(stmt)
    /\ stmt.children[1].isToken
    /\ ~is_jump_instruction(stmt)
    /\ \A i \in 1..Len(Shape(stmt)) : Shape(stmt)[i] # "label"

\* C7: for every opcode and every operand list of register, immediate and memory
\* operands, parse_instruction_type succeeds exactly when (opcode, shape) is in
\* the supported matrix and otherwise raises the unsupported-combination error;
\* an instruction is lowered only if its pair is in the matrix.
C7_ClassificationIsTheMatrix ==
    /\ \A i \in 1..Len(program) :
         IsDataInstruction(program[i]) =>
             LET r == parse_instruction_type(Opcode(program[i]), Tail(program[i].children))
             IN  IF SupportedMatrix(Opcode(program[i]), Shape(program[i]))
                 THEN r.error = NoError
                 ELSE r.error = InvalidCombination
    /\ (LoweringFailed /\ IsDataInstruction(FailedStatement)) =>
           (error = InvalidCombination
              <=> ~SupportedMatrix(Opcode(FailedStatement), Shape(FailedStatement)))
    /\ (pc = "body" /\ pos >= 2 /\ IsDataInstruction(instructions[index + 1][pos - 1])) =>
           SupportedMatrix(Opcode(instructions[index + 1][pos - 1]),
                           Shape(instructions[index + 1][pos - 1]))

\* Witness of C7: lea with two registers was refused as an unsupported combination.
C7_Witness ==
    /\ LoweringFailed
    /\ Opcode(FailedStatement) = "lea"
    /\ Shape(FailedStatement) = <<"reg", "reg">>
    /\ error = InvalidCombination

\* C8: lowering cmp in any supported shape changes only the flags entry of the
\* tracker, setting it to the cmp operation's result; every general register's
\* entry, operands and memory bases included, is unchanged.
C8_CmpWritesOnlyFlags ==
    [][ (LowersCurrent /\ IsInstruction(CurrentStatement)
                       /\ Opcode(CurrentStatement) = "cmp")
        => ( /\ NewOp.opcode = "cmp"
             /\ NewOp.nres = 1
             /\ DictHas(current_register_values', "rflags")
             /\ DictGet(current_register_values', "rflags") = NewOpResult(0)
             /\ KeysOf(current_register_values')
                    = KeysOf(current_register_values) \cup {"rflags"}
             /\ AllUnchangedExcept({"rflags"}) ) ]_vars

\* Witness of C8: a cmp with a memory first operand and a register second operand
\* has just been lowered and the flags entry is its result.
C8_Witness ==
    /\ pc = "body"
    /\ pos >= 2
    /\ Opcode(instructions[index + 1][pos - 1]) = "cmp"
    /\ Shape(instructions[index + 1][pos - 1]) = <<"mem", "reg">>
    /\ DictHas(current_register_values, "rflags")
    /\ DictGet(current_register_values, "rflags") = OpResult(index, pos - 2, 0)

IsRegisterDestination(stmt) ==
    /\ IsInstruction(stmt)
    /\ \/ /\ Opcode(stmt) \in ArithmeticOpcodes \cup {"mov"}
          /\ Shape(stmt) \in {<<"reg", "reg">>, <<"reg", "mem">>, <<"reg", "imm">>}
       \/ Opcode(stmt) = "lea" /\ Shape(stmt) = <<"reg", "mem">>
       \/ Opcode(stmt) \in {"inc", "dec", "neg", "not"} /\ Shape(stmt) = <<"reg">>

\* C9: lowering an instruction with a register destination sets the tracker entry
\* of exactly that register to the new operation's result and leaves every other
\* entry, flags and the source register included, unchanged.
C9_RegisterDestinationWritesOnlyIt ==
    [][ (LowersCurrent /\ IsRegisterDestination(CurrentStatement))
        => LET dest == Lower(CurrentStatement.children[2].value) IN
             /\ NewOp.opcode = Opcode(CurrentStatement)
             /\ dest \in TrackedGeneralRegisters
             /\ DictGet(current_register_values', dest) = NewOpResult(0)
             /\ KeysOf(current_register_values') = KeysOf(current_register_values)
             /\ AllUnchangedExcept({dest}) ]_vars

\* Witness of C9: after a cmp, `add rax, rsp` has just been lowered: rax holds the
\* add's result, and flags and rsp are still there.
C9_Witness ==
    /\ pc = "body"
    /\ pos = 3
    /\ Opcode(instructions[index + 1][2]) = "add"
    /\ Shape(instructions[index + 1][2]) = <<"reg", "reg">>
    /\ instructions[index + 1][2].children[3].value = "rsp"
    /\ DictGet(current_register_values, "rax") = OpResult(index, 1, 0)
    /\ DictHas(current_register_values, "rflags")
    /\ DictGet(current_register_values, "rflags") = OpResult(index, 0, 0)
    /\ DictGet(current_register_values, "rsp") = BlockArgument(index, 4)

IsStackOperation(stmt) ==
    /\ IsInstruction(stmt)
    /\ Opcode(stmt) \in {"push", "pop"}
    /\ Shape(stmt) \in {<<"reg">>, <<"mem">>}

IsPopRegister(stmt) == Opcode(stmt) = "pop" /\ Shape(stmt) = <<"reg">>

\* C10 as claimed: after a stack operation the rsp entry is the operation's
\* new-stack-pointer result; push and pop to memory change only rsp; pop to a
\* register also sets the destination to the popped-value result, for every
\* destination including rsp; no other entry changes.
C10_StackPointerIsNewResult ==
    [][ (LowersCurrent /\ IsStackOperation(CurrentStatement))
        => /\ DictGet(current_register_values', "rsp") = NewOpResult(0)
           /\ IF IsPopRegister(CurrentStatement)
              THEN LET dest == Lower(CurrentStatement.children[2].value) IN
                     /\ DictGet(current_register_values', dest) = NewOpResult(1)
                     /\ AllUnchangedExcept({"rsp", dest})
              ELSE AllUnchangedExcept({"rsp"}) ]_vars

\* C10 amended: as claimed for push, for pop to memory and for pop to a register
\* other than rsp; after `pop rsp` the rsp entry is the popped-value result (the
\* destination is written after the stack pointer); no other entry changes.
C10_StackPointerAmended ==
    [][ (LowersCurrent /\ IsStackOperation(CurrentStatement))
        => /\ NewOp.opcode = Opcode(CurrentStatement)
           /\ KeysOf(current_register_values') = KeysOf(current_register_values)
           /\ IF IsPopRegister(CurrentStatement)
              THEN LET dest == Lower(CurrentStatement.children[2].value) IN
                     /\ DictGet(current_register_values', dest) = NewOpResult(1)
                     /\ dest # "rsp" =>
                            DictGet(current_register_values', "rsp") = NewOpResult(0)
                     /\ AllUnchangedExcept({"rsp", dest})
              ELSE /\ DictGet(current_register_values', "rsp") = NewOpResult(0)
                   /\ AllUnchangedExcept({"rsp"}) ]_vars

\* Witness of C10: `pop rsp` has just been lowered and rsp holds the popped value.
C10_Witness ==
    /\ pc = "body"
    /\ pos >= 2
    /\ IsPopRegister(instructions[index + 1][pos - 1])
    /\ instructions[index + 1][pos - 1].children[2].value = "rsp"
    /\ DictGet(current_register_values, "rsp") = OpResult(index, pos - 2, 1)

(***************************************************************************)
(* Reads and writes of registers, statement by statement                   *)
(***************************************************************************)
\* The register an operand names: the register token, or a memory node's base.
RegisterOf(operand) ==
    IF operand.isToken THEN Lower(operand.value) ELSE Lower(operand.children[1].value)

\* The registers a data instruction reads, in operand order, the stack pointer
\* of push and pop first.  The first operand of mov, lea and pop, when it is a
\* register, is written without being read; immediates name no register.
ReadRegisters(stmt) ==
    LET operands == Tail(stmt.children)
        IsRead(i) == /\ OperandKind(operands[i]) \in {"reg", "mem"}
                     /\ ~(/\ i = 1
                          /\ OperandKind(operands[i]) = "reg"
                          /\ Opcode(stmt) \in {"mov", "lea", "pop"})
        indices  == SelectSeq([i \in 1..Len(operands) |-> i], IsRead)
        named    == [j \in 1..Len(indices) |-> RegisterOf(operands[indices[j]])]
    IN  (IF Opcode(stmt) \in {"push", "pop"} THEN <<"rsp">> ELSE <<>>) \o named

\* The index of the result of a lowered statement that becomes the value of
\* register reg, or -1 if the statement does not write reg.
WrittenResult(stmt, reg) ==
    IF ~IsInstruction(stmt) THEN 0 - 1
    ELSE IF IsStackOperation(stmt)
    THEN IF IsPopRegister(stmt) /\ reg = Lower(stmt.children[2].value) THEN 1
         ELSE IF reg = "rsp" THEN 0
         ELSE 0 - 1
    ELSE IF Opcode(stmt) = "cmp"
    THEN IF reg = "rflags" THEN 0 ELSE 0 - 1
    ELSE IF IsRegisterDestination(stmt) /\ reg = Lower(stmt.children[2].value) THEN 0
    ELSE 0 - 1

\* The position (from 0) of register reg among a block's input parameters.
ParameterIndex(reg) == (CHOOSE i \in 1..17 : ParameterNames[i] = reg) - 1

\* The value register reg holds when statement n (from 1) of block b is lowered:
\* the result of the latest earlier statement of the block that wrote it, or the
\* block's input parameter.
LastWrite(b, n, reg) ==
    LET writers == {m \in 1..(n - 1) : WrittenResult(instructions[b + 1][m], reg) >= 0}
    IN  IF writers = {}
        THEN BlockArgument(b, ParameterIndex(reg))
        ELSE LET m == CHOOSE w \in writers : \A v \in writers : v <= w
             IN  OpResult(b, m - 1, WrittenResult(instructions[b + 1][m], reg))

\* C11: within one block every register an instruction reads (source operand,
\* read-modify-write destination, memory base, stack pointer of push and pop) is
\* the result of the most recent earlier instruction of the block that wrote the
\* register, or the block's input parameter if none did.
C11_ReadsObserveLastWrite ==
    \A b \in 1..Len(blocks) : \A n \in 1..Len(blocks[b].ops) :
        (n <= Len(instructions[b]) /\ IsDataInstruction(instructions[b][n])) =>
            LET reads == ReadRegisters(instructions[b][n]) IN
            /\ Len(blocks[b].ops[n].operands) = Len(reads)
            /\ \A i \in 1..Len(reads) :
                   blocks[b].ops[n].operands[i] = LastWrite(b - 1, n, reads[i])

\* Witness of C11: `mov rax, rbx` and `add rbx, rax` were lowered in this order in
\* one block; the add reads rbx from the block's parameter and rax from the mov.
C11_Witness ==
    /\ Len(blocks) >= 1
    /\ Len(blocks[1].ops) >= 2
    /\ Len(instructions[1]) >= 2
    /\ instructions[1][1] = Instr("mov", <<Reg("rax"), Reg("rbx")>>)
    /\ instructions[1][2] = Instr("add", <<Reg("rbx"), Reg("rax")>>)
    /\ blocks[1].ops[1].opcode = "mov"
    /\ blocks[1].ops[2].opcode = "add"
    /\ blocks[1].ops[2].operands = <<BlockArgument(0, 3), OpResult(0, 0, 0)>>

(***************************************************************************)
(* Vocabulary of the properties of the partition                           *)
(***************************************************************************)
IsLabel(stmt) == ~stmt.isToken /\ stmt.data = "label"

\* A label node with a single name token, or an instruction node whose first
\* child is an opcode token.
WellFormedStatement(stmt) ==
    /\ ~stmt.isToken
    /\ \/ /\ stmt.data = "label"
          /\ Len(stmt.children) = 1
          /\ stmt.children[1].isToken
       \/ /\ stmt.data = "instruction"
          /\ Len(stmt.children) >= 1
          /\ stmt.children[1].isToken
          /\ stmt.children[1].data = "OPCODE"

WellFormedProgram == \A i \in 1..Len(program) : WellFormedStatement(program[i])

\* jmp, a conditional jump or ret
IsTerminator(stmt) == IsJmp(stmt) \/ IsConditionalJump(stmt) \/ IsRet(stmt)

\* Statement i starts a block: it is the first statement, or a label, or the
\* statement before it is a terminating instruction.
StartsBlock(i) ==
    \/ i = 1
    \/ IsLabel(program[i])
    \/ IsTerminator(program[i - 1])

Partitioned == pc \notin {"start", "failed"} \/ LoweringFailed

\* C12: for every well-formed statement sequence get_basic_blocks returns no
\* empty block, and the number of blocks is the number of statements that start a
\* block (the first statement, every label, every statement after a jmp, a
\* conditional jump or a ret); the empty program yields zero blocks.
C12_BlocksAreTheStarts ==
    (Partitioned /\ WellFormedProgram) =>
        /\ \A b \in 1..Len(instructions) : Len(instructions[b]) >= 1
        /\ Len(instructions) = Cardinality({i \in 1..Len(program) : StartsBlock(i)})

LabelNames == {program[i].children[1].value : i \in {j \in 1..Len(program) : IsLabel(program[j])}}

\* C13: after get_basic_blocks every label name of the table maps to a valid
\* block index, and the first statement of that block is a label statement with
\* that name: for consecutive labels, a label after a terminator, a label as first
\* statement, and a name defined more than once.  The table holds every label
\* name of the program.
C13_LabelOpensItsBlock ==
    Partitioned =>
        /\ DOMAIN label_map = LabelNames
        /\ \A name \in DOMAIN label_map :
               /\ label_map[name] \in 0..(Len(instructions) - 1)
               /\ IsLabel(instructions[label_map[name] + 1][1])
               /\ instructions[label_map[name] + 1][1].children[1].value = name

\* Witness of C13: la is defined by the first statement and again directly after
\* a terminator; the table maps la to the block the second definition opens.
C13_Witness ==
    /\ Partitioned
    /\ Len(program) = 3
    /\ program[1] = Label("la")
    /\ IsTerminator(program[2])
    /\ program[3] = Label("la")
    /\ label_map["la"] = 1
    /\ Len(instructions) = 2

(***************************************************************************)
(* Vocabulary of the properties of jumps                                   *)
(***************************************************************************)
\* The lowering loop of convert_blocks has been reached.
LoweringStarted == pc \in {"enter", "body", "assembled", "done"} \/ LoweringFailed

\* A jump with exactly one operand, a label token.
HasLabelOperand(stmt) ==
    /\ Len(stmt.children) = 2
    /\ stmt.children[2].isToken
    /\ stmt.children[2].data = "LABELNAME"

TargetOf(stmt) == stmt.children[2].value

IsJump(stmt) == IsJmp(stmt) \/ IsConditionalJump(stmt)

UnknownLabel(name) == ConversionError("Label does not exist in the program", name)

\* C14: before the first instruction is lowered there is one block skeleton per
\* partition, each with its 17 input parameters, and the label table holds every
\* label of the program; so a jump to a label defined later in the program
\* resolves to that later block exactly as a backward jump does: a lowered jump's
\* first successor is the label's block, a jump to a defined label never fails to
\* resolve, and a jmp to a defined label never fails.
C14_SkeletonsBeforeLowering ==
    LoweringStarted =>
        /\ Len(blocks) = Len(instructions)
        /\ Len(block_register_inputs) = Len(instructions)
        /\ \A b \in 1..Len(blocks) :
               /\ Len(blocks[b].args) = 17
               /\ \A i \in 1..Len(blocks[b].args) :
                      blocks[b].args[i] = BlockArgument(b - 1, i - 1)
        /\ DOMAIN label_map = LabelNames
        /\ \A b \in 1..Len(blocks) : \A n \in 1..Len(blocks[b].ops) :
               (IsJmpOp(blocks[b].ops[n]) \/ IsConditionalJumpOp(blocks[b].ops[n])) =>
                   /\ blocks[b].ops[n].successors[1] = label_map[TargetOf(StatementOf(b - 1, n))]
                   /\ blocks[b].ops[n].successors[1] \in 0..(Len(blocks) - 1)
        /\ ( /\ LoweringFailed
             /\ IsJump(FailedStatement)
             /\ HasLabelOperand(FailedStatement)
             /\ TargetOf(FailedStatement) \in LabelNames )
           => /\ error # UnknownLabel(TargetOf(FailedStatement))
              /\ error.type # "IndexError"
              /\ ~IsJmp(FailedStatement)

\* Witness of C14: `jmp lb` in block 0 was lowered to a jump to block 1, which
\* the later statement `lb:` opens.
C14_Witness ==
    /\ LoweringStarted
    /\ Len(blocks) >= 2
    /\ Len(blocks[1].ops) >= 1
    /\ Len(blocks[1].ops) <= Len(instructions[1])
    /\ instructions[1][Len(blocks[1].ops)] = Instr("jmp", <<LabelRef("lb")>>)
    /\ IsJmpOp(blocks[1].ops[Len(blocks[1].ops)])
    /\ blocks[1].ops[Len(blocks[1].ops)].successors = <<1>>
    /\ instructions[2][1] = Label("lb")

Dangling == ConversionError("Conditional jump at the end of program (has no successor)", "")

\* Every statement before the current one, in program order, has been lowered
\* into one operation of its block.
EarlierStatementsLowered ==
    /\ \A b \in 1..index : Len(blocks[b].ops) >= Len(instructions[b])
    /\ Len(blocks[index + 1].ops) = pos - 1

\* C15: a jump (jmp or conditional) whose target is not in the label table fails
\* with the unknown-label error naming the label, also when it is a conditional
\* jump in the last block; the error is raised only when that jump itself is
\* lowered, after every earlier statement has been lowered; no graph is returned
\* for a program with such a jump.
C15_UnknownLabelAtTheJump ==
    /\ ( /\ LoweringFailed
         /\ IsJump(FailedStatement)
         /\ HasLabelOperand(FailedStatement)
         /\ TargetOf(FailedStatement) \notin LabelNames )
       => error = UnknownLabel(TargetOf(FailedStatement))
    /\ error.msg = "Label does not exist in the program" =>
           /\ LoweringFailed
           /\ IsJump(FailedStatement)
           /\ HasLabelOperand(FailedStatement)
           /\ error.detail = TargetOf(FailedStatement)
           /\ error.detail \notin LabelNames
           /\ EarlierStatementsLowered
    /\ pc = "done" =>
           \A i \in 1..Len(program) :
               (IsJump(program[i]) /\ HasLabelOperand(program[i])) =>
                   TargetOf(program[i]) \in LabelNames

\* Witness of C15: after a lowered cmp, a conditional jump to the undefined label
\* lz in the last block failed with the unknown-label error naming lz.
C15_Witness ==
    /\ LoweringFailed
    /\ index = Len(instructions) - 1
    /\ pos = 2
    /\ Len(blocks[index + 1].ops) = 1
    /\ FailedStatement = Instr("jne", <<LabelRef("lz")>>)
    /\ error = UnknownLabel("lz")

\* The statement being lowered is the last statement of the program.
AtFinalStatement ==
    /\ index = Len(instructions) - 1
    /\ pos = Len(instructions[index + 1])

\* C16: every input whose final statement is a conditional jump fails, and no
\* graph is returned; when all earlier statements lower and the target label is
\* defined, the failure is the dangling-conditional-jump error (the last block
\* has no else-successor); only a conditional jump of the last block fails this
\* way, an unconditional jmp never does.
C16_FinalConditionalJumpFails ==
    /\ (pc \in {"assembled", "done"} /\ Len(program) >= 1) =>
           ~IsConditionalJump(program[Len(program)])
    /\ ( /\ LoweringFailed
         /\ AtFinalStatement
         /\ IsConditionalJump(FailedStatement)
         /\ HasLabelOperand(FailedStatement)
         /\ TargetOf(FailedStatement) \in LabelNames )
       => error = Dangling
    /\ error = Dangling =>
           /\ LoweringFailed
           /\ IsConditionalJump(FailedStatement)
           /\ index = Len(instructions) - 1
           /\ EarlierStatementsLowered

\* Witness of C16: `la:`, a cmp and a conditional jump back to la, the final
\* statement, were reached in order and the jump failed as dangling.
C16_Witness ==
    /\ LoweringFailed
    /\ AtFinalStatement
    /\ pos = 3
    /\ Len(blocks[index + 1].ops) = 2
    /\ IsConditionalJump(FailedStatement)
    /\ TargetOf(FailedStatement) = "la"
    /\ "la" \in LabelNames
    /\ error = Dangling

StructureError == ConversionError("Invalid code structure", "")

\* C17: a statement that is neither a well-formed label node nor a well-formed
\* instruction node (a bare token, a label whose child is not a token, a node of
\* another kind, an instruction whose first child is not an opcode token) makes
\* conversion fail with the structure error in get_basic_blocks, before any block
\* skeleton is created and before any statement is lowered.
C17_MalformedFailsInSplitting ==
    (pc # "start" /\ ~WellFormedProgram) =>
        /\ pc = "failed"
        /\ error = StructureError
        /\ ~LoweringFailed
        /\ blocks = <<>>

(***************************************************************************)
(* Vocabulary of the properties of memory operands                         *)
(***************************************************************************)
MemoryOperandIndices(stmt) ==
    {i \in 2..Len(stmt.children) : ~stmt.children[i].isToken}

HasMemoryOperand(stmt) == IsInstruction(stmt) /\ MemoryOperandIndices(stmt) # {}

\* The memory node of an instruction (the shapes of the matrix have at most one).
MemoryOperandOf(stmt) ==
    stmt.children[CHOOSE i \in MemoryOperandIndices(stmt) :
                      \A j \in MemoryOperandIndices(stmt) : i <= j]

\* The operand of an operation that is its `memory` argument.
MemoryValue(op) ==
    IF op.cls \in {"RM", "SM"} THEN op.operands[2]
    ELSE IF op.cls = "M" /\ op.opcode \in {"push", "pop"} THEN op.operands[2]
    ELSE op.operands[1]

\* The offset a memory node denotes: 0, +m or -m.
DenotedOffset(mem) ==
    IF Len(mem.children) = 1 THEN 0
    ELSE IF mem.children[2].value = "+" THEN ParseInt(mem.children[3].value).val
    ELSE 0 - ParseInt(mem.children[3].value).val

\* C18: an instruction with a memory operand is lowered with, as memory base,
\* the value the tracker holds for the base register at that point of the block
\* and, as memory offset, 0 for [base], +m for [base + m] and -m for [base - m].
C18_MemoryOperandDecoding ==
    [][ (LowersCurrent /\ HasMemoryOperand(CurrentStatement))
        => LET mem == MemoryOperandOf(CurrentStatement) IN
             /\ Len(mem.children) \in {1, 3}
             /\ DictHas(current_register_values, RegisterOf(mem))
             /\ MemoryValue(NewOp) = DictGet(current_register_values, RegisterOf(mem))
             /\ NewOp.attrs[1] = DenotedOffset(mem) ]_vars

\* Witness of C18: after `mov rax, rbx`, `lea rsp, [rax - 10]` was lowered with
\* the mov's result as base and offset -10.
C18_Witness ==
    /\ Len(blocks) >= 1
    /\ Len(blocks[1].ops) >= 2
    /\ Len(instructions[1]) >= 2
    /\ instructions[1][2] = Instr("lea", <<Reg("rsp"), MemOff("rax", "-", "10")>>)
    /\ blocks[1].ops[1].opcode = "mov"
    /\ blocks[1].ops[2] =
           Operation("DM", "lea", <<OpResult(0, 0, 0)>>, <<0 - 10>>, 1, <<>>, <<>>)

InvalidMemoryOperand == ConversionError("Invalid memory operand", "")

\* A memory node whose shape is not 1 or 3 children or whose base is not one of
\* the 16 tracked general registers.
IsInvalidMemory(mem) ==
    \/ Len(mem.children) \notin {1, 3}
    \/ RegisterOf(mem) \notin TrackedGeneralRegisters

\* The memory node is the first operand the lowering decodes: it is the first
\* operand, or the register operand before it is a tracked general register.
MemoryDecodedFirst(stmt) ==
    \/ ~stmt.children[2].isToken
    \/ Lower(stmt.children[2].value) \in TrackedGeneralRegisters

\* C19: decoding a memory operand whose shape is not 1 or 3 children, or whose
\* base is not one of the 16 tracked general registers (eax, rflags before or
\* after a cmp in the block), fails with the invalid-memory-operand error, and no
\* instruction with such an operand is ever lowered.
C19_InvalidMemoryRejected ==
    /\ \A b \in 1..Len(blocks) : \A n \in 1..Len(blocks[b].ops) :
           (n <= Len(instructions[b]) /\ HasMemoryOperand(instructions[b][n])) =>
               ~IsInvalidMemory(MemoryOperandOf(instructions[b][n]))
    /\ ( /\ LoweringFailed
         /\ HasMemoryOperand(FailedStatement)
         /\ SupportedMatrix(Opcode(FailedStatement), Shape(FailedStatement))
         /\ MemoryDecodedFirst(FailedStatement)
         /\ IsInvalidMemory(MemoryOperandOf(FailedStatement)) )
       => error = InvalidMemoryOperand

(***************************************************************************)
(* Vocabulary of the properties of call                                    *)
(***************************************************************************)
LabelOperandError == ConversionError("Data instruction cannot have label operand", "")

IsCall(stmt) == IsInstruction(stmt) /\ Opcode(stmt) = "call"

HasLabelToken(stmt) == \E i \in 1..Len(Shape(stmt)) : Shape(stmt)[i] = "label"

\* `call <label>`
IsCallLabel(stmt) == IsCall(stmt) /\ Shape(stmt) = <<"label">>

\* No call statement has been lowered into an operation, and no graph is
\* returned for a program with a call.
CallNeverLowered ==
    /\ \A b \in 1..Len(blocks) : \A n \in 1..Len(blocks[b].ops) :
           n <= Len(instructions[b]) => ~IsCall(instructions[b][n])
    /\ pc \in {"assembled", "done"} => \A i \in 1..Len(program) : ~IsCall(program[i])

\* C20 as claimed: `call <label>` is never dropped or lowered; conversion fails
\* at it with the unsupported-combination error, not with another error.
C20_CallIsUnsupportedCombination ==
    /\ CallNeverLowered
    /\ (LoweringFailed /\ IsCallLabel(FailedStatement)) => error = InvalidCombination

\* C20 amended: `call <label>` is never dropped or lowered; conversion fails at
\* it with the label-operand error of the operand classification, raised before
\* the opcode is looked at; a call whose operands are registers, immediates,
\* memory or none fails with the unsupported-combination error.
C20_CallLabelIsLabelOperandError ==
    /\ CallNeverLowered
    /\ (LoweringFailed /\ IsCall(FailedStatement)) =>
           IF HasLabelToken(FailedStatement)
           THEN error = LabelOperandError
           ELSE error = InvalidCombination

\* Witness of C20: after a lowered instruction, `call printf` failed with the
\* label-operand error.
C20_Witness ==
    /\ LoweringFailed
    /\ pos = 2
    /\ Len(blocks[index + 1].ops) = 1
    /\ FailedStatement = Instr("call", <<LabelRef("printf")>>)
    /\ error = LabelOperandError

(***************************************************************************)
(* Vocabulary of the properties of the graph                               *)
(***************************************************************************)
\* Every value an operation uses: its operands and its snapshots.
ValuesUsed(op) ==
    {op.operands[i] : i \in 1..Len(op.operands)}
    \cup UNION { {op.succ_values[j][i] : i \in 1..Len(op.succ_values[j])} :
                   j \in 1..Len(op.succ_values) }

\* Value v is an input parameter of block b (from 0), or a result of one of
\* the first n operations of block b.
DefinedBefore(v, b, n) ==
    \/ /\ v.kind = "arg"
       /\ v.block = b
       /\ v.idx \in 0..16
       /\ blocks[b + 1].args[v.idx + 1] = v
    \/ /\ v.kind = "res"
       /\ v.block = b
       /\ v.op \in 0..(n - 1)
       /\ v.idx \in 0..(blocks[b + 1].ops[v.op + 1].nres - 1)

\* C21: every SSA value used by an operation of block b, operand or snapshot
\* value, is one of block b's own input parameters or a result of an operation
\* earlier in block b; no value defined in another block is used directly.
C21_ValuesAreBlockLocal ==
    \A b \in 1..Len(blocks) : \A n \in 1..Len(blocks[b].ops) :
        \A v \in ValuesUsed(blocks[b].ops[n]) : DefinedBefore(v, b - 1, n - 1)

\* Witness of C21: in the returned graph of `add rax, rbx / la: / add rax, rbx`
\* block 0 passes its add's result to block 1 in the fallthrough snapshot, and
\* the add of block 1 reads block 1's parameters.
C21_Witness ==
    /\ pc = "done"
    /\ Len(blocks) = 2
    /\ Len(blocks[1].ops) = 2
    /\ Len(blocks[2].ops) = 2
    /\ IsFallthroughOp(blocks[1].ops[2])
    /\ blocks[1].ops[2].succ_values[1][1] = OpResult(0, 0, 0)
    /\ blocks[2].ops[2].opcode = "add"
    /\ blocks[2].ops[2].operands = <<BlockArgument(1, 0), BlockArgument(1, 3)>>

RECURSIVE Flatten(_)
Flatten(bs) == IF Len(bs) = 0 THEN <<>> ELSE bs[1] \o Flatten(Tail(bs))

\* C27: get_basic_blocks partitions the input: the returned blocks concatenated
\* in order are the input statement sequence; a label statement is only ever the
\* first statement of its block and a terminating instruction (jmp, conditional
\* jump, ret) only ever the last.
C27_BlocksPartitionTheInput ==
    Partitioned =>
        /\ Flatten(instructions) = program
        /\ \A b \in 1..Len(instructions) : \A n \in 1..Len(instructions[b]) :
               /\ IsLabel(instructions[b][n]) => n = 1
               /\ IsTerminator(instructions[b][n]) => n = Len(instructions[b])

\* Witness of C27: `ret / la: / ret` is split into [ret] and [la:, ret].
C27_Witness ==
    /\ Partitioned
    /\ program = <<Instr("ret", <<>>), Label("la"), Instr("ret", <<>>)>>
    /\ instructions = << <<Instr("ret", <<>>)>>, <<Label("la"), Instr("ret", <<>>)>> >>

(***************************************************************************)
(* Vocabulary of the properties of the viewer                              *)
(***************************************************************************)
\* LinearView.__init__ has returned.
ViewBuilt == vpc \in {"view", "print", "printed"}

\* The positions of the Jmp entries: column c, place i in it.
Entries == {e \in (1..Len(columns)) \X (1..MaxJumps) : e[2] <= Len(columns[e[1]])}

\* The entry a jump a->b is to appear as.
JmpOf(a, b) == IF a < b THEN Jmp(a, b, FALSE) ELSE Jmp(b, a, TRUE)

\* The lines a jump a->b spans, as (first, last).
SpanOf(j) == IF j[1] < j[2] THEN <<j[1], j[2]>> ELSE <<j[2], j[1]>>

\* The jumps can be put in an order in which each span ends at or before the line
\* where the next starts: the same as any two of them being so ordered one way
\* or the other.
Chainable(jumps) ==
    \A j \in jumps : \A k \in jumps \ {j} :
        \/ SpanOf(j)[2] <= SpanOf(k)[1]
        \/ SpanOf(k)[2] <= SpanOf(j)[1]

\* C23: for every Lines object built by add_line and add_jump calls, every
\* column of the LinearView is disjoint and ordered: each Jmp has start <= end,
\* and consecutive jumps p, s of a column have p.end <= s.start.
C23_ColumnsDisjointAndOrdered ==
    \A c \in 1..Len(columns) :
        /\ \A i \in 1..Len(columns[c]) : columns[c][i].start <= columns[c][i].end
        /\ \A i \in 1..(Len(columns[c]) - 1) :
               columns[c][i].end <= columns[c][i + 1].start

\* Witness of C23: jumps 0->1, 2->1 and 1->1 (two of them to line 1, one backward,
\* one to itself) laid out in two columns, the first holding 0->1 and 2->1.
C23_Witness ==
    /\ ViewBuilt
    /\ JumpsOf(lines) = {<<0, 1>>, <<2, 1>>, <<1, 1>>}
    /\ columns = << <<Jmp(0, 1, FALSE), Jmp(1, 2, TRUE)>>, <<Jmp(1, 1, TRUE)>> >>

\* C24: LinearView places every jump in exactly one column, exactly once: there
\* are as many Jmp entries as jumps added; a forward jump a->b is Jmp(a, b, False)
\* and a backward jump or self-jump a->b is Jmp(b, a, True).
C24_EveryJumpPlacedOnce ==
    ViewBuilt =>
        /\ Cardinality(Entries) = Cardinality(JumpsOf(lines))
        /\ \A j \in JumpsOf(lines) :
               Cardinality({e \in Entries :
                               columns[e[1]][e[2]] = JmpOf(j[1], j[2])}) = 1

\* Witness of C24: a forward jump 0->2, a backward jump 2->1 and a self-jump 2->2
\* are the entries Jmp(0, 2, False), Jmp(1, 2, True) and Jmp(2, 2, True).
C24_Witness ==
    /\ ViewBuilt
    /\ JumpsOf(lines) = {<<0, 2>>, <<2, 1>>, <<2, 2>>}
    /\ {columns[e[1]][e[2]] : e \in Entries}
           = {Jmp(0, 2, FALSE), Jmp(1, 2, TRUE), Jmp(2, 2, TRUE)}

\* C25 as stated: whenever the jumps can be ordered so that each span ends at or
\* before the line where the next one starts, LinearView uses exactly one column.
C25_ChainableJumpsShareAColumn ==
    (ViewBuilt /\ JumpsOf(lines) # {} /\ Chainable(JumpsOf(lines)))
        => Len(columns) = 1

\* A self-jump a->a together with another jump whose span starts at line a.
SelfJumpAtAStart(jumps) ==
    \E j \in jumps : \E k \in jumps \ {j} :
        j[1] = j[2] /\ SpanOf(k)[1] = j[1]

\* C25: jumps whose spans can be ordered end-before-start share one column,
\* unless a self-jump a->a comes with another jump whose span starts at a.
C25_ChainsWithoutSelfJumpAtAStartShareAColumn ==
    (ViewBuilt /\ JumpsOf(lines) # {} /\ Chainable(JumpsOf(lines))
        /\ ~SelfJumpAtAStart(JumpsOf(lines)))
        => Len(columns) = 1

\* Witness of C25: jumps 0->1 and 1->2 touch at line 1 and are one column.
C25_Witness ==
    /\ ViewBuilt
    /\ JumpsOf(lines) = {<<0, 1>>, <<1, 2>>}
    /\ columns = << <<Jmp(0, 1, FALSE), Jmp(1, 2, FALSE)>> >>

\* print has shown the label row of line n.
LabelShown(n) ==
    \E k \in 1..Len(output) : output[k].text = "LINE_" /\ output[k].line = n

\* Some jump added to the Lines object ends at line n.
Targeted(n) == \E j \in JumpsOf(lines) : j[2] = n

\* C26: LinearView.print shows the row `LINE_n:` exactly when at least one jump
\* targets line n.
C26_LabelShownIffTargeted ==
    vpc = "printed" =>
        \A n \in 0..(Len(lines.next) - 1) : LabelShown(n) <=> Targeted(n)

\* C22: the outcome of convert on an input (the blocks with their operations,
\* edges and snapshots, or the error raised) is the same on a new converter as on
\* an instance that already ran earlier conversions, successful or failed: every
\* call on an input gives the outcome every earlier call on that input gave, the
\* first of them on the new instance.
C22_OutcomeIndependentOfEarlierConversions ==
    Finished =>
        \A k \in 1..Len(earlier) :
            earlier[k].program = program => Outcome = earlier[k].outcome

\* Witness of C22: `jmp la` fails on the new instance for its unknown label; the
\* instance then converts `la: / jmp la`, which leaves la in the label table; the
\* third call, on `jmp la` again, fails with the error of the first.
C22_Witness ==
    /\ phase = "again"
    /\ pc = "failed"
    /\ Len(earlier) = 2
    /\ earlier[1].program = <<Instr("jmp", <<LabelRef("la")>>)>>
    /\ earlier[2].program = <<Label("la"), Instr("jmp", <<LabelRef("la")>>)>>
    /\ earlier[2].outcome.error = NoError
    /\ Len(earlier[2].outcome.blocks) = 1
    /\ program = earlier[1].program
    /\ error = earlier[1].outcome.error

====
